---- MODULE Spec2Model ----
(***************************************************************************)
(* Model of the fashion search backend (server.js): the POST /search       *)
(* handler with its query derivation, the provider fan-out of              *)
(* searchProducts, the filter / rank / sort stage, the price enhancer and  *)
(* the comparison builder.                                                 *)
(*                                                                         *)
(* JavaScript strings are TLA+ strings; a character is a string of length  *)
(* one.  A value that may be null/undefined is a record [null, v].         *)
(* Numbers that may carry two decimals (prices) are kept in hundredths.    *)
(***************************************************************************)
EXTENDS Integers, Sequences, FiniteSets, TLC

(***************************************************************************)
(* Strings                                                                 *)
(***************************************************************************)
Ch(s, i) == SubSeq(s, i, i)

UpperChars == "ABCDEFGHIJKLMNOPQRSTUVWXYZ"
LowerChars == "abcdefghijklmnopqrstuvwxyz"
DigitChars == "0123456789"

DigitSet == {Ch(DigitChars, i) : i \in 1..10}
UpperSet == {Ch(UpperChars, i) : i \in 1..26}
LowerSet == {Ch(LowerChars, i) : i \in 1..26}
\* the lower-case letter of each upper-case letter
LowerOf == [c \in UpperSet |-> Ch(LowerChars, CHOOSE i \in 1..26 : Ch(UpperChars, i) = c)]
\* the value of each digit
DigitOf == [c \in DigitSet |-> (CHOOSE i \in 1..10 : Ch(DigitChars, i) = c) - 1]

IsDigit(c) == c \in DigitSet
IsSpace(c) == c = " "
\* \w of a JavaScript regular expression
IsWordChar(c) == c \in DigitSet \/ c = "_" \/ c \in LowerSet \/ c \in UpperSet

LowerCh(c) == IF c \in UpperSet THEN LowerOf[c] ELSE c

RECURSIVE ToLower(_)
\* String.prototype.toLowerCase (character by character, halving the string)
ToLower(s) ==
    IF s = "" THEN ""
    ELSE IF Len(s) = 1 THEN LowerCh(s)
    ELSE ToLower(SubSeq(s, 1, Len(s) \div 2))
         \o ToLower(SubSeq(s, Len(s) \div 2 + 1, Len(s)))

RECURSIVE FirstInk(_, _)
\* the first position from i on of a character that is no white space,
\* Len(s) + 1 when there is none
FirstInk(s, i) ==
    IF i > Len(s) THEN i
    ELSE IF IsSpace(Ch(s, i)) THEN FirstInk(s, i + 1) ELSE i

RECURSIVE LastInk(_, _)
\* the last position up to i of a character that is no white space, 0 when
\* there is none
LastInk(s, i) ==
    IF i < 1 THEN 0
    ELSE IF IsSpace(Ch(s, i)) THEN LastInk(s, i - 1) ELSE i

\* String.prototype.trim: from the first to the last character that is no
\* white space
Trim(s) == SubSeq(s, FirstInk(s, 1), LastInk(s, Len(s)))

\* String.prototype.includes
Includes(s, t) ==
    \E i \in 1..(Len(s) - Len(t) + 1) : SubSeq(s, i, i + Len(t) - 1) = t

\* String.prototype.startsWith
StartsWith(s, t) == Len(s) >= Len(t) /\ SubSeq(s, 1, Len(t)) = t

\* there is a t in ts with s.includes(t)
IncludesAny(s, ts) == \E t \in ts : Includes(s, t)

\* index of the first occurrence of the character c in s, 0 when absent
IndexOfCh(s, c) ==
    LET hits == {i \in 1..Len(s) : Ch(s, i) = c}
    IN  IF hits = {} THEN 0 ELSE CHOOSE i \in hits : \A j \in hits : i <= j

\* the part of s before position i, all of s when i is 0
UpTo(s, i) == IF i = 0 THEN s ELSE SubSeq(s, 1, i - 1)

\* s.split('?')[0]
BeforeQuery(s) == UpTo(s, IndexOfCh(s, "?"))

RECURSIVE Repeat(_, _)
\* String.prototype.repeat
Repeat(s, n) ==
    IF n = 0 THEN ""
    ELSE IF n = 1 THEN s
    ELSE Repeat(s, n \div 2) \o Repeat(s, n - n \div 2)

(***************************************************************************)
(* null / undefined                                                        *)
(***************************************************************************)
Null == [null |-> TRUE, v |-> ""]
Some(s) == [null |-> FALSE, v |-> s]
\* JavaScript truthiness of a string-or-null value
Truthy(x) == ~x.null /\ x.v # ""

NoNum == [null |-> TRUE, n |-> 0]
Num(n) == [null |-> FALSE, n |-> n]

(***************************************************************************)
(* Bounds of the model                                                     *)
(***************************************************************************)
\* a provider returns at most this many products of its catalogue
MaxResults == 2
\* length of the long user text and of the long model output: 200 plus this
LongExtra == 1

(***************************************************************************)
(* Program constants                                                       *)
(***************************************************************************)
MinTextOut == 3
MinImageOut == 5
MaxOut == 200
MinBase64 == 100
LargeImage == 200000
MediumImage == 50000
SmallImage == 20000
HeadLimit == 5
\* limits: { fileSize: 20 * 1024 * 1024 }
MaxFileSize == 20 * 1024 * 1024

(***************************************************************************)
(* Query derivation: validation of the model's output                      *)
(***************************************************************************)
\* the refusal phrases of queryGeminiFromText
TextRefusals ==
    {"cannot provide", "no shopping query", "cannot analyze", "unable to",
     "error", "sorry", "i cannot", "i don't understand"}

\* the refusal phrases of queryGeminiFromImage
ImageRefusals ==
    {"cannot provide", "no shopping query", "cannot analyze", "unable to",
     "error", "sorry", "i cannot", "i don't see", "no clothing", "no fashion"}

\* a validation of the text output that only looks for the refusal phrases
TextOutNotRefused(out) == ~IncludesAny(ToLower(out), TextRefusals)

\* queryGeminiFromText accepts the parsed output `out` (it throws otherwise)
TextOutAccepted(out) ==
    /\ out # ""
    /\ ~IncludesAny(ToLower(out), TextRefusals)
    /\ Len(out) >= MinTextOut
    /\ Len(out) <= MaxOut

\* a validation of the image output with the text path's minimum length
ImageOutMinAsText(out) ==
    /\ out # ""
    /\ ~IncludesAny(ToLower(out), ImageRefusals)
    /\ Len(out) >= MinTextOut
    /\ Len(out) <= MaxOut

\* queryGeminiFromImage accepts the parsed output `out` (it throws otherwise)
ImageOutAccepted(out) ==
    /\ out # ""
    /\ ~IncludesAny(ToLower(out), ImageRefusals)
    /\ Len(out) >= MinImageOut
    /\ Len(out) <= MaxOut

\* base64 length of n bytes: Buffer.toString('base64')
Base64Len(n) == 4 * ((n + 2) \div 3)

(***************************************************************************)
(* Query derivation: the deterministic fallbacks of the /search handler    *)
(***************************************************************************)
FashionTerms ==
    {"shirt", "dress", "pant", "jean", "shoe", "bag", "jacket", "coat",
     "skirt", "top", "blouse", "sneaker", "boot", "handbag", "purse",
     "jewelry", "accessory"}

StyleTerms ==
    {"summer", "winter", "spring", "autumn", "casual", "formal", "party",
     "elegant", "sporty", "vintage", "modern", "classic", "trendy", "outfit",
     "clothes", "clothing", "wear", "style", "beach", "office", "weekend",
     "everyday", "seasonal", "light", "warm", "professional", "relaxed",
     "attire"}

SummerQuery == "summer dresses summer shirts summer pants summer shorts casual wear"
WinterQuery == "winter jackets winter sweaters winter pants winter coats warm wear"
SpringQuery == "spring dresses spring tops spring jackets spring pants light wear"
AutumnQuery == "autumn jackets autumn sweaters autumn dresses autumn pants seasonal wear"
CasualQuery == "casual t-shirts casual jeans casual dresses casual shirts everyday wear"
PartyQuery == "party dresses party shirts party pants elegant formal wear"
FormalQuery == "formal shirts formal pants formal dresses professional wear"
BeachQuery == "beach dresses beach shorts beach shirts beach wear summer casual"
OfficeQuery == "office shirts office pants office dresses professional formal wear"
WeekendQuery == "weekend t-shirts weekend jeans weekend dresses casual relaxed wear"

CannedQueries ==
    {SummerQuery, WinterQuery, SpringQuery, AutumnQuery, CasualQuery,
     PartyQuery, FormalQuery, BeachQuery, OfficeQuery, WeekendQuery}

\* the if / else-if chain over the season and occasion keywords; `other` is
\* the query of its final else
SeasonChain(t, other) ==
    IF Includes(t, "summer") THEN SummerQuery
    ELSE IF Includes(t, "winter") THEN WinterQuery
    ELSE IF Includes(t, "spring") THEN SpringQuery
    ELSE IF Includes(t, "autumn") \/ Includes(t, "fall") THEN AutumnQuery
    ELSE IF Includes(t, "casual") THEN CasualQuery
    ELSE IF Includes(t, "party") THEN PartyQuery
    ELSE IF Includes(t, "formal") THEN FormalQuery
    ELSE IF Includes(t, "beach") THEN BeachQuery
    ELSE IF Includes(t, "office") THEN OfficeQuery
    ELSE IF Includes(t, "weekend") THEN WeekendQuery
    ELSE other

\* the catch block of the text branch; text is the request's text
TextFallback(text) ==
    LET originalText == ToLower(Trim(text))
        hasFashionTerms == IncludesAny(originalText, FashionTerms)
        hasStyleTerms == IncludesAny(originalText, StyleTerms)
    IN  IF hasFashionTerms /\ hasStyleTerms
        THEN originalText \o " fashion clothing"
        ELSE IF hasStyleTerms
        THEN SeasonChain(originalText, originalText \o " fashion clothing style")
        ELSE IF hasFashionTerms
        THEN originalText \o " fashion style"
        ELSE IF IncludesAny(originalText, {"outfit", "clothes", "clothing", "wear"})
        THEN SeasonChain(originalText,
                         "fashion dresses fashion shirts fashion pants trendy clothing")
        ELSE originalText \o " fashion clothing style"

\* the catch block of the image branch when a caption is present
CaptionFallback(text) ==
    LET improvedText == ToLower(Trim(text))
    IN  IF IncludesAny(improvedText, {"shirt", "top", "blouse", "tee"})
        THEN improvedText \o " clothing fashion casual wear"
        ELSE IF IncludesAny(improvedText, {"pant", "jean", "trouser", "legging"})
        THEN improvedText \o " bottoms fashion casual wear"
        ELSE IF IncludesAny(improvedText, {"dress", "gown", "frock"})
        THEN improvedText \o " women fashion casual elegant"
        ELSE IF IncludesAny(improvedText, {"shoe", "sneaker", "boot", "footwear"})
        THEN improvedText \o " footwear fashion casual"
        ELSE IF IncludesAny(improvedText, {"bag", "purse", "handbag", "backpack"})
        THEN improvedText \o " accessories fashion"
        ELSE IF IncludesAny(improvedText, {"jacket", "coat", "blazer"})
        THEN improvedText \o " outerwear fashion casual formal"
        ELSE IF IncludesAny(improvedText, {"skirt", "short"})
        THEN improvedText \o " women fashion casual"
        ELSE IF IncludesAny(improvedText, {"jewelry", "necklace", "earring", "ring"})
        THEN improvedText \o " accessories fashion jewelry"
        ELSE IF IncludesAny(improvedText, StyleTerms)
        THEN SeasonChain(improvedText, improvedText \o " fashion clothing style")
        ELSE improvedText \o " fashion clothing style trendy"

\* urlClues of the image fallback; "" when the URL gives no clue
UrlClues(imageUrlLower) ==
    IF IncludesAny(imageUrlLower, {"shirt", "top", "tee"}) THEN "shirt top clothing"
    ELSE IF IncludesAny(imageUrlLower, {"dress", "gown"}) THEN "dress women fashion"
    ELSE IF IncludesAny(imageUrlLower, {"pant", "jean"}) THEN "pants jeans bottoms"
    ELSE IF IncludesAny(imageUrlLower, {"shoe", "sneaker", "boot"}) THEN "shoes footwear"
    ELSE IF IncludesAny(imageUrlLower, {"bag", "purse", "handbag"}) THEN "bag accessories"
    ELSE IF IncludesAny(imageUrlLower, {"jacket", "coat"}) THEN "jacket coat outerwear"
    ELSE ""

\* the catch block of the image branch without a caption: imageSize is
\* imageBuffer.length (0 without an upload), imageUrl the request's imageUrl
NoCaptionFallback(imageSize, imageUrl) ==
    LET urlClues == UrlClues(ToLower(IF imageUrl.null THEN "" ELSE imageUrl.v))
    IN  IF urlClues # "" THEN urlClues \o " fashion style"
        ELSE IF imageSize > LargeImage
        THEN "fashion clothing outfit style casual wear trendy"
        ELSE IF imageSize > MediumImage
        THEN "fashion clothing style casual wear"
        ELSE IF imageSize < SmallImage
        THEN "fashion accessories jewelry bags shoes"
        ELSE "fashion clothing style trendy casual wear"

\* the catch block of the image branch
ImageFallback(text, imageSize, imageUrl) ==
    IF Truthy(text) /\ Trim(text.v) # ""
    THEN CaptionFallback(text.v)
    ELSE NoCaptionFallback(imageSize, imageUrl)

(***************************************************************************)
(* Numbers in strings                                                      *)
(***************************************************************************)
DigitVal(c) == DigitOf[c]

RECURSIVE DigitsToInt(_)
\* the value of a string of decimal digits ("" is 0)
DigitsToInt(s) ==
    IF s = "" THEN 0
    ELSE 10 * DigitsToInt(SubSeq(s, 1, Len(s) - 1)) + DigitVal(Ch(s, Len(s)))

RECURSIVE IntToStr(_)
\* String(n) of a non-negative integer
IntToStr(n) ==
    IF n < 10 THEN Ch(DigitChars, n + 1)
    ELSE IntToStr(n \div 10) \o Ch(DigitChars, (n % 10) + 1)

RECURSIVE RemoveCh(_, _)
\* s.replace(/c/g, '') for the characters of the set cs
RemoveCh(s, cs) ==
    IF s = "" THEN ""
    ELSE IF Len(s) = 1 THEN (IF s \in cs THEN "" ELSE s)
    ELSE RemoveCh(SubSeq(s, 1, Len(s) \div 2), cs)
         \o RemoveCh(SubSeq(s, Len(s) \div 2 + 1, Len(s)), cs)

\* length of the longest prefix of s[i..] whose characters satisfy the class:
\* the greedy match of [class]* at i
RECURSIVE RunLen(_, _, _)
RunLen(s, i, commaToo) ==
    IF i <= Len(s) /\ (IsDigit(Ch(s, i)) \/ (commaToo /\ Ch(s, i) = ","))
    THEN 1 + RunLen(s, i + 1, commaToo)
    ELSE 0

RECURSIVE SpaceLen(_, _)
\* the greedy match of \s* at i
SpaceLen(s, i) ==
    IF i <= Len(s) /\ IsSpace(Ch(s, i)) THEN 1 + SpaceLen(s, i + 1) ELSE 0

\* (?:\.\d{2})? at i: the number of characters it takes, 3 or 0
FracLen(s, i) ==
    IF /\ i + 2 <= Len(s)
       /\ Ch(s, i) = "."
       /\ IsDigit(Ch(s, i + 1))
       /\ IsDigit(Ch(s, i + 2))
    THEN 3 ELSE 0

RECURSIVE GroupsLen(_, _)
\* (?:,\d{3})* at i: the number of characters it takes
GroupsLen(s, i) ==
    IF /\ i + 3 <= Len(s)
       /\ Ch(s, i) = ","
       /\ IsDigit(Ch(s, i + 1))
       /\ IsDigit(Ch(s, i + 2))
       /\ IsDigit(Ch(s, i + 3))
    THEN 4 + GroupsLen(s, i + 4)
    ELSE 0

Min2(a, b) == IF a < b THEN a ELSE b

\* the text matched by \d{1,3}(?:,\d{3})*(?:\.\d{2})? starting at the digit
\* at i (each part is greedy and the later parts are optional)
GroupedAt(s, i) ==
    LET d == Min2(3, RunLen(s, i, FALSE))
        g == GroupsLen(s, i + d)
        f == FracLen(s, i + d + g)
    IN  SubSeq(s, i, i + d + g + f - 1)

\* position of the first digit of s, 0 when there is none
FirstDigit(s) ==
    IF \E i \in 1..Len(s) : IsDigit(Ch(s, i))
    THEN CHOOSE i \in 1..Len(s) :
            IsDigit(Ch(s, i)) /\ \A j \in 1..(i - 1) : ~IsDigit(Ch(s, j))
    ELSE 0

\* parseFloat of a string made of digits with an optional ".dd" tail, in
\* hundredths; NoNum for NaN
ParseFloat100(c) ==
    LET d == RunLen(c, 1, FALSE)
        f == FracLen(c, d + 1)
    IN  IF d = 0 /\ f = 0 THEN NoNum
        ELSE Num(100 * DigitsToInt(SubSeq(c, 1, d))
                 + (IF f = 3 THEN DigitsToInt(SubSeq(c, d + 2, d + 3)) ELSE 0))

CurrencyChars == {"₹", "$", "€", "£"}

\* a first pattern that never matches
NoCurrencyMatch(s) == [null |-> TRUE, v |-> ""]

\* the capture of /[₹$€£]\s*([\d,]+(?:\.\d{2})?)/ at its leftmost match, as
\* [null, v]; null when the pattern does not match
CurrencyMatch(s) ==
    LET Ok(i) ==
            /\ Ch(s, i) \in CurrencyChars
            /\ RunLen(s, i + 1 + SpaceLen(s, i + 1), TRUE) > 0
    IN  IF \E i \in 1..Len(s) : Ok(i)
        THEN LET i == CHOOSE i \in 1..Len(s) : Ok(i) /\ \A j \in 1..(i - 1) : ~Ok(j)
                 b == i + 1 + SpaceLen(s, i + 1)
                 r == RunLen(s, b, TRUE)
                 f == FracLen(s, b + r)
             IN  Some(SubSeq(s, b, b + r + f - 1))
        ELSE Null

\* parsePriceToNumber of a string or null, in hundredths.  Patterns 3 and 4,
\* the 3+-digit candidates and the final fallback all need a digit in the
\* string, and with a digit in it pattern 2 has already matched and returned.
parsePriceToNumber(price) ==
    IF price.null THEN NoNum
    ELSE LET priceStr == Trim(price.v)
             m1 == CurrencyMatch(priceStr)
             n1 == IF m1.null THEN NoNum ELSE ParseFloat100(RemoveCh(m1.v, {","}))
             fd == FirstDigit(priceStr)
         IN  IF ~n1.null THEN n1
             ELSE IF fd # 0
             THEN ParseFloat100(RemoveCh(GroupedAt(priceStr, fd), {","}))
             ELSE NoNum

(***************************************************************************)
(* Sequences                                                               *)
(***************************************************************************)
\* Array.prototype.sort with a comparator that is a total preorder: the
\* stable sort (an insertion sort that puts each element after the elements
\* it is not before); Before(a, b) is "compare(a, b) < 0"
StableSort(s, Before(_, _)) ==
    LET RECURSIVE Insert(_, _)
        Insert(sorted, x) ==
            IF sorted = <<>> THEN <<x>>
            ELSE IF Before(x, sorted[1]) THEN <<x>> \o sorted
            ELSE <<sorted[1]>> \o Insert(Tail(sorted), x)
        RECURSIVE Sort(_)
        Sort(t) ==
            IF t = <<>> THEN <<>>
            ELSE Insert(Sort(SubSeq(t, 1, Len(t) - 1)), t[Len(t)])
    IN  Sort(s)

(***************************************************************************)
(* searchProducts: merge and deduplication                                 *)
(*                                                                         *)
(* A product is [title, price, link, source, thumbnail], each a string or  *)
(* null.  The further fields the site adapter adds (category, brand,       *)
(* hasRealImage) are read by no stage of the pipeline and are left out.    *)
(***************************************************************************)
\* a link key that keeps the link's case
linkKeyAsGiven(it) == BeforeQuery(it.link.v)

linkKey(it) == ToLower(BeforeQuery(it.link.v))
titleKey(it) == Trim(ToLower(it.title.v))
\* the deduplication key of searchProducts
DedupKey(it) == linkKey(it) \o "|" \o titleKey(it)

\* if (!it || !it.title || !it.link) continue
ValidItem(it) == Truthy(it.title) /\ Truthy(it.link)

RECURSIVE Dedupe(_, _)
\* the deduplication loop of searchProducts over `out`, `seen` the keys so far
Dedupe(out, seen) ==
    IF out = <<>> THEN <<>>
    ELSE LET it == out[1]
         IN  IF ~ValidItem(it) THEN Dedupe(Tail(out), seen)
             ELSE IF DedupKey(it) \in seen THEN Dedupe(Tail(out), seen)
             ELSE <<it>> \o Dedupe(Tail(out), seen \cup {DedupKey(it)})

\* history: the providers in the order in which their calls settled, kept
\* where the order of completion is looked at
VARIABLE settled

RECURSIVE MergeUntilRejected(_, _)
\* a merge that gives up at the first rejected provider, as awaiting the
\* calls one after the other would
MergeUntilRejected(results, i) ==
    IF i > Len(results) THEN <<>>
    ELSE IF results[i].status # "fulfilled" THEN <<>>
    ELSE results[i].value \o MergeUntilRejected(results, i + 1)

RECURSIVE MergeAsSettled(_, _)
\* a merge that takes the results in the order in which the calls settled
MergeAsSettled(results, i) ==
    IF i > Len(settled) THEN <<>>
    ELSE (IF results[settled[i]].status = "fulfilled"
          THEN results[settled[i]].value ELSE <<>>)
         \o MergeAsSettled(results, i + 1)

RECURSIVE MergeFulfilled(_, _)
\* the loop over the settled results, in provider order: a fulfilled
\* result's value is appended, a rejected one is skipped
MergeFulfilled(results, i) ==
    IF i > Len(results) THEN <<>>
    ELSE (IF results[i].status = "fulfilled" THEN results[i].value ELSE <<>>)
         \o MergeFulfilled(results, i + 1)

\* what searchProducts returns once every provider has settled
SearchProductsResult(results) == Dedupe(MergeFulfilled(results, 1), {})

(***************************************************************************)
(* normalizeProduct, applyFilters, rerankByQueryHeuristics, applySort      *)
(***************************************************************************)
\* normalizeProduct; _titleLower, _sourceLower and _linkLower are computed
\* where they are read
normalizeProduct(p) ==
    [title |-> p.title, price |-> p.price, link |-> p.link, source |-> p.source,
     thumbnail |-> p.thumbnail, priceUpdated |-> FALSE,
     priceNumber |-> parsePriceToNumber(p.price)]

StrOrEmpty(x) == IF Truthy(x) THEN x.v ELSE ""
titleLower(p) == ToLower(StrOrEmpty(p.title))
sourceLower(p) == ToLower(StrOrEmpty(p.source))
linkLower(p) == ToLower(StrOrEmpty(p.link))

RECURSIVE SplitList(_, _)
\* String(val).split(/[,|]/) from the current piece `cur` on
SplitList(s, cur) ==
    IF s = "" THEN <<cur>>
    ELSE IF Ch(s, 1) \in {",", "|"} THEN <<cur>> \o SplitList(Tail(s), "")
    ELSE SplitList(Tail(s), cur \o Ch(s, 1))

RECURSIVE TrimNonEmpty(_)
\* .map(s => s.trim()).filter(Boolean)
TrimNonEmpty(parts) ==
    IF parts = <<>> THEN <<>>
    ELSE (IF Trim(parts[1]) # "" THEN <<Trim(parts[1])>> ELSE <<>>)
         \o TrimNonEmpty(Tail(parts))

\* toArray of a string or null, then .map(s => s.toLowerCase()), as a set
\* (the filters only ask whether some element matches)
toArrayLower(val) ==
    IF ~Truthy(val) THEN {}
    ELSE LET parts == TrimNonEmpty(SplitList(val.v, ""))
         IN  {ToLower(parts[i]) : i \in 1..Len(parts)}

\* a price filter that also rejects the products without a known price
PassesKnownPriceOnly(p, f) ==
    /\ ~f.minPrice.null => (~p.priceNumber.null /\ p.priceNumber.n >= f.minPrice.n)
    /\ ~f.maxPrice.null => (~p.priceNumber.null /\ p.priceNumber.n <= f.maxPrice.n)

\* the predicate of applyFilters; f is [minPrice, maxPrice, colors, sizes,
\* brands], the price bounds numbers in hundredths or null
PassesFilters(p, f) ==
    /\ ~(~f.minPrice.null /\ ~p.priceNumber.null /\ p.priceNumber.n < f.minPrice.n)
    /\ ~(~f.maxPrice.null /\ ~p.priceNumber.null /\ p.priceNumber.n > f.maxPrice.n)
    /\ toArrayLower(f.colors) # {} => IncludesAny(titleLower(p), toArrayLower(f.colors))
    /\ toArrayLower(f.sizes) # {} => IncludesAny(titleLower(p), toArrayLower(f.sizes))
    /\ toArrayLower(f.brands) # {} =>
          IncludesAny(titleLower(p) \o " " \o sourceLower(p) \o " " \o linkLower(p),
                      toArrayLower(f.brands))

applyFilters(products, f) == SelectSeq(products, LAMBDA p : PassesFilters(p, f))

IsAlnumLower(c) == c \in DigitSet \/ c \in LowerSet

RECURSIVE TokensFrom(_, _)
\* the maximal runs of [a-z0-9] of q that start at or after position i
TokensFrom(q, i) ==
    LET starts == {k \in i..Len(q) :
                     IsAlnumLower(Ch(q, k)) /\ (k = 1 \/ ~IsAlnumLower(Ch(q, k - 1)))}
    IN  IF starts = {} THEN <<>>
        ELSE LET b == CHOOSE k \in starts : \A j \in starts : k <= j
                 e == CHOOSE k \in b..Len(q) :
                        /\ \A j \in b..k : IsAlnumLower(Ch(q, j))
                        /\ (k = Len(q) \/ ~IsAlnumLower(Ch(q, k + 1)))
             IN  <<SubSeq(q, b, e)>> \o TokensFrom(q, e + 1)

\* q.split(/[^a-z0-9]+/).filter(Boolean)
Tokens(q) == TokensFrom(q, 1)

\* new RegExp(`\\b${tok}\\b`).test(t) for a token of [a-z0-9]+
WordMatch(t, tok) ==
    \E i \in 1..(Len(t) - Len(tok) + 1) :
        /\ SubSeq(t, i, i + Len(tok) - 1) = tok
        /\ (i = 1 \/ ~IsWordChar(Ch(t, i - 1)))
        /\ (i + Len(tok) - 1 = Len(t) \/ ~IsWordChar(Ch(t, i + Len(tok))))

RankFashionTerms ==
    {"shirt", "dress", "pant", "jean", "shoe", "bag", "jacket", "coat",
     "skirt", "top", "blouse", "sneaker", "boot", "handbag", "purse",
     "jewelry", "accessory", "fashion", "style", "wear", "clothing"}

RankColors ==
    {"red", "blue", "green", "yellow", "black", "white", "pink", "purple",
     "orange", "brown", "gray", "grey", "navy", "maroon", "beige", "cream"}

RECURSIVE TokenScoreAll10(_, _, _)
\* a loop over the query tokens that skips no token
TokenScoreAll10(t, s, tokens) ==
    IF tokens = <<>> THEN 0
    ELSE (IF WordMatch(t, tokens[1]) THEN 50
          ELSE IF Includes(t, tokens[1]) THEN 20 ELSE 0)
         + (IF Includes(s, tokens[1]) THEN 10 ELSE 0)
         + TokenScoreAll10(t, s, Tail(tokens))

RECURSIVE TokenScore10(_, _, _)
\* the loop over the query tokens, in tenths of a point
TokenScore10(t, s, tokens) ==
    IF tokens = <<>> THEN 0
    ELSE LET tok == tokens[1]
         IN  (IF Len(tok) < 2 THEN 0
              ELSE (IF WordMatch(t, tok) THEN 50
                    ELSE IF Includes(t, tok) THEN 20 ELSE 0)
                   + (IF Includes(s, tok) THEN 10 ELSE 0))
             + TokenScore10(t, s, Tail(tokens))

\* the score rerankByQueryHeuristics gives a product, in tenths of a point
Score10(p, tokens) ==
    LET t == ToLower(StrOrEmpty(p.title))
        s == ToLower(StrOrEmpty(p.source))
    IN  TokenScore10(t, s, tokens)
        + 5 * Cardinality({term \in RankFashionTerms : Includes(t, term)})
        + 3 * Cardinality({color \in RankColors : Includes(t, color)})
        + (IF Truthy(p.price) /\ p.price.v # "null" THEN 10 ELSE 0)
        + (IF Truthy(p.thumbnail) THEN 5 ELSE 0)

rerankByQueryHeuristics(products, query) ==
    LET tokens == Tokens(ToLower(query))
        scored == [i \in 1..Len(products) |->
                     [p |-> products[i], score |-> Score10(products[i], tokens)]]
        sorted == StableSort(scored, LAMBDA a, b : b.score - a.score < 0)
    IN  IF query = "" \/ products = <<>> \/ tokens = <<>> THEN products
        ELSE [i \in 1..Len(sorted) |-> sorted[i].p]

\* a comparator whose direction also turns the place of the unknown prices
PriceBeforeMirrored(a, b, dir) ==
    LET pa == a.priceNumber
        pb == b.priceNumber
    IN  IF pa.null /\ pb.null THEN FALSE
        ELSE IF pa.null THEN dir < 0
        ELSE IF pb.null THEN dir > 0
        ELSE (pa.n - pb.n) * dir < 0

\* the comparator of applySort is negative
PriceBefore(a, b, dir) ==
    LET pa == a.priceNumber
        pb == b.priceNumber
    IN  IF pa.null /\ pb.null THEN FALSE
        ELSE IF pa.null THEN FALSE
        ELSE IF pb.null THEN TRUE
        ELSE (pa.n - pb.n) * dir < 0

\* applySort; sortBy and sortOrder are strings or null
applySort(products, sortBy, sortOrder) ==
    LET order == ToLower(IF Truthy(sortOrder) THEN sortOrder.v ELSE "asc")
        dir == IF order = "desc" THEN -1 ELSE 1
    IN  IF ToLower(StrOrEmpty(sortBy)) = "price"
        THEN StableSort(products, LAMBDA a, b : PriceBefore(a, b, dir))
        ELSE products

\* the filters the handler reads from the request body
FiltersOf(r) ==
    [minPrice |-> r.minPrice, maxPrice |-> r.maxPrice, colors |-> r.colors,
     sizes |-> r.sizes, brands |-> r.brands]

\* if (!sortBy) rerankByQueryHeuristics else applySort
rankOrSort(products, r, query) ==
    IF ~Truthy(r.sortBy)
    THEN rerankByQueryHeuristics(products, query)
    ELSE applySort(products, r.sortBy, r.sortOrder)

\* the filter and rank-or-sort stage of the /search handler
FilterAndOrder(products, r, query) ==
    LET normalized == [i \in 1..Len(products) |-> normalizeProduct(products[i])]
    IN  rankOrSort(applyFilters(normalized, FiltersOf(r)), r, query)

(***************************************************************************)
(* enhanceProductPrices                                                    *)
(***************************************************************************)
ScrapedSources == {"amazon", "myntra", "ajio", "flipkart", "snapdeal"}

\* fetchRealTimePrice calls a scraper for this product
HasScraper(p) == IncludesAny(ToLower(StrOrEmpty(p.source)), ScrapedSources)

\* a race that hands back a product without its price unless the scraper
\* found one in time
RaceResultOrBlank(p, outcome) ==
    IF outcome.kind = "price" /\ Truthy(p.link) /\ outcome.n # 0
    THEN [p EXCEPT !.price = Some("₹" \o IntToStr(outcome.n)), !.priceUpdated = TRUE]
    ELSE [p EXCEPT !.price = Null]

\* what Promise.race([fetchRealTimePrice(product), timeout]) resolves to.
\* outcome is [kind, n]: "price" (the scraper returned the integer n in
\* time), "none" (it returned null or threw) or "timeout" (the 2 s timer won)
RaceResult(p, outcome) ==
    IF outcome.kind = "price" /\ Truthy(p.link) /\ HasScraper(p) /\ outcome.n # 0
    THEN [p EXCEPT !.price = Some("₹" \o IntToStr(outcome.n)), !.priceUpdated = TRUE]
    ELSE p

\* product.price is missing: !product.price || 'null' || 'undefined'
LacksPrice(p) == ~Truthy(p.price) \/ p.price.v \in {"null", "undefined"}

\* parseFloat(cleanPrice).toFixed(0) of a value in hundredths
ToFixed0(h) == IntToStr((h + 50) \div 100)

\* the title fallback and the formatting step applied to a product that
\* lacks a price.  The first title pattern matches at the first digit of the
\* title; the alternative pattern needs a digit too, so it never adds a match.
TitlePrice(p) ==
    LET t == StrOrEmpty(p.title)
        fd == FirstDigit(t)
        extracted ==
            IF fd = 0 THEN p
            ELSE [p EXCEPT !.price = Some("₹" \o RemoveCh(GroupedAt(t, fd), {","})),
                           !.priceUpdated = TRUE]
        cleanPrice == Trim(RemoveCh(StrOrEmpty(extracted.price), CurrencyChars))
    IN  IF LacksPrice(extracted) \/ cleanPrice = "" \/ ParseFloat100(cleanPrice).null
        THEN extracted
        ELSE [extracted EXCEPT
                !.price = Some("₹" \o ToFixed0(ParseFloat100(cleanPrice).n))]

\* the number of products a live scrape is started for
HeadCount(products) == Min2(HeadLimit, Len(products))

\* enhanceProductPrices(products) when the races of the head products end as
\* outcomes[i] says
enhanceProductPrices(products, outcomes) ==
    LET raced == [i \in 1..Len(products) |->
                    IF i <= HeadCount(products) /\ Truthy(products[i].link)
                    THEN RaceResult(products[i], outcomes[i])
                    ELSE products[i]]
    IN  [i \in 1..Len(products) |->
            IF LacksPrice(raced[i]) THEN TitlePrice(raced[i]) ELSE raced[i]]

\* stripInternalFields
stripInternalFields(products) ==
    [i \in 1..Len(products) |->
        [title |-> products[i].title, price |-> products[i].price,
         link |-> products[i].link, source |-> products[i].source,
         thumbnail |-> products[i].thumbnail,
         priceUpdated |-> products[i].priceUpdated]]

(***************************************************************************)
(* generateComparisonData                                                  *)
(***************************************************************************)
SourceOf(p) == IF Truthy(p.source) THEN p.source.v ELSE "Unknown"

RECURSIVE CompanyOrder(_, _)
\* the keys of companyGroups in insertion order
CompanyOrder(products, seen) ==
    IF products = <<>> THEN <<>>
    ELSE IF SourceOf(products[1]) \in seen THEN CompanyOrder(Tail(products), seen)
    ELSE <<SourceOf(products[1])>>
         \o CompanyOrder(Tail(products), seen \cup {SourceOf(products[1])})

RECURSIVE SumOf(_)
SumOf(ns) == IF ns = <<>> THEN 0 ELSE ns[1] + SumOf(Tail(ns))

RECURSIVE Lowest(_, _)
\* validProducts.reduce((min, p) => price < minPrice ? p : min) over
\* [product, price] pairs
Lowest(min, rest) ==
    IF rest = <<>> THEN min
    ELSE Lowest(IF rest[1].price < min.price THEN rest[1] ELSE min, Tail(rest))

\* the object generateComparisonData returns for an empty list; `keys` are
\* the fields of the object
EmptyComparison ==
    [keys |-> {"companies", "companyGroups", "priceStats", "bestDeals"},
     companies |-> <<>>, companyGroups |-> <<>>,
     priceStats |-> [null |-> TRUE, min |-> 0, max |-> 0, total |-> 0, count |-> 0],
     bestDeals |-> <<>>, totalProducts |-> 0,
     priceRange |-> [null |-> TRUE, lowest |-> 0, highest |-> 0, difference |-> 0]]

\* each product with parsePriceToNumber(product.price), which every loop of
\* generateComparisonData computes again: it is a pure function of the product
ParsedPrices(products) ==
    [i \in 1..Len(products) |->
        [product |-> products[i], num |-> parsePriceToNumber(products[i].price)]]

\* companyGroups: the products of each company of `order`
GroupsOf(parsed, order) ==
    [i \in 1..Len(order) |->
        SelectSeq(parsed, LAMBDA e : SourceOf(e.product) = order[i])]

\* priceStats that looks at the first priced product only
PriceStatsFirstOnly(priced) ==
    IF Len(priced) > 0
    THEN [null |-> FALSE, min |-> priced[1].num.n, max |-> priced[1].num.n,
          total |-> priced[1].num.n, count |-> 1]
    ELSE [null |-> TRUE, min |-> 0, max |-> 0, total |-> 0, count |-> 0]

\* priceStats over the products with a price
PriceStatsOf(priced) ==
    IF Len(priced) > 0
    THEN LET prices == {priced[i].num.n : i \in 1..Len(priced)}
         IN  [null |-> FALSE,
              min |-> CHOOSE x \in prices : \A y \in prices : x <= y,
              max |-> CHOOSE x \in prices : \A y \in prices : x >= y,
              total |-> SumOf([i \in 1..Len(priced) |-> priced[i].num.n]),
              count |-> Len(priced)]
    ELSE [null |-> TRUE, min |-> 0, max |-> 0, total |-> 0, count |-> 0]

\* a best deal that takes the company's first priced product
BestDealFirst(company, valid) ==
    [company |-> company, product |-> valid[1].product, price |-> valid[1].num.n]

\* the best deal of a company: the first lowest-priced of its products that
\* have a price
BestDealOf(company, valid) ==
    LET pairs == [k \in 1..Len(valid) |->
                    [product |-> valid[k].product, price |-> valid[k].num.n]]
        lowest == Lowest(pairs[1], Tail(pairs))
    IN  [company |-> company, product |-> lowest.product, price |-> lowest.price]

\* bestDeals: one per company with a priced product, ascending by price
BestDealsOf(order, groups) ==
    LET withDeal == SelectSeq([i \in 1..Len(order) |-> i],
                              LAMBDA i : \E k \in 1..Len(groups[i]) :
                                            ~groups[i][k].num.null)
    IN  StableSort([j \in 1..Len(withDeal) |->
                      BestDealOf(order[withDeal[j]],
                                 SelectSeq(groups[withDeal[j]], LAMBDA e : ~e.num.null))],
                   LAMBDA a, b : a.price - b.price < 0)

\* companies: the company names, the one with most products first
CompaniesOf(order, groups) ==
    LET sizes == [i \in 1..Len(order) |-> [company |-> order[i], n |-> Len(groups[i])]]
        bySize == StableSort(sizes, LAMBDA a, b : b.n - a.n < 0)
    IN  [i \in 1..Len(bySize) |-> bySize[i].company]

\* the object generateComparisonData returns for a non-empty list
ComparisonOf(products, order, groups, stats) ==
    [keys |-> {"companies", "companyGroups", "priceStats", "bestDeals",
               "totalProducts", "priceRange"},
     companies |-> CompaniesOf(order, groups),
     companyGroups |->
        [i \in 1..Len(order) |->
            [company |-> order[i],
             products |-> [k \in 1..Len(groups[i]) |-> groups[i][k].product]]],
     priceStats |-> stats,
     bestDeals |-> BestDealsOf(order, groups),
     totalProducts |-> Len(products),
     priceRange |->
        IF ~stats.null
        THEN [null |-> FALSE, lowest |-> stats.min, highest |-> stats.max,
              difference |-> stats.max - stats.min]
        ELSE [null |-> TRUE, lowest |-> 0, highest |-> 0, difference |-> 0]]

\* generateComparisonData over the parsed products
ComparisonFrom(products, parsed, order) ==
    ComparisonOf(products, order, GroupsOf(parsed, order),
                 PriceStatsOf(SelectSeq(parsed, LAMBDA e : ~e.num.null)))

generateComparisonData(products) ==
    IF products = <<>> THEN EmptyComparison
    ELSE ComparisonFrom(products, ParsedPrices(products), CompanyOrder(products, {}))

(***************************************************************************)
(* The environment of one /search request                                  *)
(***************************************************************************)
NoFile == [present |-> FALSE, mimetype |-> "", size |-> 0]
File(m, n) == [present |-> TRUE, mimetype |-> m, size |-> n]

\* a request without any field
EmptyReq ==
    [multipart |-> FALSE, text |-> Null, imageUrl |-> Null, raw |-> FALSE,
     file |-> NoFile, minPrice |-> NoNum, maxPrice |-> NoNum, colors |-> Null,
     sizes |-> Null, brands |-> Null, sortBy |-> Null, sortOrder |-> Null]

LongText == Repeat("z", MaxOut + LongExtra)

\* the requests the model sends
Requests ==
    { EmptyReq,
      [EmptyReq EXCEPT !.text = Some("")],
      [EmptyReq EXCEPT !.text = Some("summer outfits")],
      [EmptyReq EXCEPT !.text = Some("Fall looks")],
      [EmptyReq EXCEPT !.text = Some(" Red Shirt "), !.sortBy = Some("price"),
                       !.minPrice = Num(50000)],
      [EmptyReq EXCEPT !.text = Some("   ")],
      [EmptyReq EXCEPT !.text = Some("a"), !.raw = TRUE],
      [EmptyReq EXCEPT !.text = Some(LongText), !.raw = TRUE],
      [EmptyReq EXCEPT !.text = Some(LongText)],
      [EmptyReq EXCEPT !.text = Some("blue jeans"),
                       !.imageUrl = Some("http://i.ex/a.png")],
      [EmptyReq EXCEPT !.imageUrl = Some("http://i.ex/Dress.png")],
      [EmptyReq EXCEPT !.multipart = TRUE, !.file = File("image/png", 60000)],
      [EmptyReq EXCEPT !.multipart = TRUE, !.file = File("image/jpeg", 30)],
      [EmptyReq EXCEPT !.multipart = TRUE, !.text = Some("white sneakers"),
                       !.file = File("image/png", 300000)],
      [EmptyReq EXCEPT !.multipart = TRUE, !.file = File("image/tiff", 60000)],
      [EmptyReq EXCEPT !.multipart = TRUE, !.file = File("text/plain", 10)],
      [EmptyReq EXCEPT !.multipart = TRUE, !.text = Some("red dress"),
                       !.file = File("image/png", MaxFileSize + 1)] }

\* what the external model's call ends with: a network error, a non-OK
\* status, or a response whose parsed text (parseGeminiText) is `out`
AIReplies ==
    {[kind |-> "neterr", out |-> ""], [kind |-> "http", out |-> ""]}
    \cup {[kind |-> "ok", out |-> o] :
            o \in {"", "ab", "red cotton shirt", "Sorry, I cannot help with that",
                   "I don't see a shirt", LongText}}

\* on the image path the model may also answer with four characters
AIImageReplies == AIReplies \cup {[kind |-> "ok", out |-> "abcd"]}

\* the sizes of the image a download of imageUrl yields
DownloadSizes == {30, 60000}

Prod(t, p, l, s, th) ==
    [title |-> t, price |-> p, link |-> l, source |-> s, thumbnail |-> th]

\* what each provider can find, in its result order: Google Shopping,
\* Amazon, Flipkart (site search), Myntra (site search).  The site search
\* returns no price and always a thumbnail.
Catalogue ==
    << << Prod(Some("Red Cotton Shirt"), Some("₹1,299"),
               Some("http://s.ex/1?ref=g"), Some("Zara"), Some("t1")),
          Prod(Some("Blue Denim Jeans"), Some("₹799.50"),
               Some("http://s.ex/2"), Some("Myntra"), Null),
          Prod(Null, Some("₹10"), Some("http://s.ex/3"), Null, Null) >>,
       << Prod(Some(" red cotton shirt "), Some("999"),
               Some("HTTP://S.EX/1?tag=a"), Some("Amazon"), Some("t2")),
          Prod(Some("Nike Air 270"), Null,
               Some("http://amazon.in/2"), Some("Amazon"), Null),
          Prod(Some("Red Cotton Shirt"), Some("1299"),
               Some("http://amazon.in/3"), Some("Amazon"), Null) >>,
       << Prod(Some("Blue Denim Jeans"), Null,
               Some("http://s.ex/2?x=1"), Some("flipkart.com"), Some("t3")),
          Prod(Some("Lost Link"), Null, Null, Some("flipkart.com"), Some("t4")),
          Prod(Some("Black Jacket"), Null,
               Some("http://flipkart.com/1"), Some("flipkart.com"), Some("t5")) >>,
       << Prod(Some("Summer Dress"), Null,
               Some("http://myntra.com/1"), Some("myntra.com"), Some("t6")),
          Prod(Some("summer dress "), Null,
               Some("http://MYNTRA.com/1?y=2"), Some("myntra.com"), Some("t7")),
          Prod(Some("Summer Dress"), Null,
               Some("http://myntra.com/2"), Some("myntra.com"), Some("t8")) >> >>

NumProviders == 4
Providers == 1..NumProviders

\* how a provider call settles: rejected, or fulfilled with the first n
\* products of its catalogue (a provider that finds nothing adds to the
\* merge what a rejected one adds: nothing)
ProviderOutcomes(i) ==
    {[status |-> "rejected", value |-> <<>>]}
    \cup {[status |-> "fulfilled", value |-> SubSeq(Catalogue[i], 1, n)] :
            n \in 1..Min2(MaxResults, Len(Catalogue[i]))}

Pending == [status |-> "pending", value |-> <<>>]
NotCalled == [status |-> "none", value |-> <<>>]

\* What the retailer pages do while the enhancer runs, per product link:
\* the page shows the price n in time ("price"), the scrape outlasts the 2 s
\* race ("timeout"); for every other link the scraper finds nothing.
LivePages ==
    { <<>>,
      <<[link |-> "http://s.ex/2", kind |-> "price", n |-> 499]>>,
      <<[link |-> "http://amazon.in/2", kind |-> "timeout", n |-> 0],
        [link |-> "http://myntra.com/1", kind |-> "price", n |-> 1299]>>,
      <<[link |-> "HTTP://S.EX/1?tag=a", kind |-> "price", n |-> 0],
        [link |-> "http://s.ex/1?ref=g", kind |-> "price", n |-> 1500]>> }

\* how the race of the product p ends when the pages do as `live` says
OutcomeFor(p, live) ==
    IF \E k \in 1..Len(live) : p.link = Some(live[k].link)
    THEN LET k == CHOOSE k \in 1..Len(live) : p.link = Some(live[k].link)
         IN  [kind |-> live[k].kind, n |-> live[k].n]
    ELSE [kind |-> "none", n |-> 0]

\* how the races of the head products of ps end, one outcome per product
RaceOutcomes(ps, live) == [i \in 1..HeadCount(ps) |-> OutcomeFor(ps[i], live)]

(***************************************************************************)
(* State of one POST /search request                                       *)
(***************************************************************************)
VARIABLES
    cfg,          \* [gemini, serp]: GEMINI_API_KEY and SERPAPI_API_KEY are set
    pc,           \* where the request is
    req,          \* the request
    aiCalls,      \* the calls made to the external model, in order
    timer,        \* the abort timer of the model call is armed
    aiReply,      \* what the model call's fetch settled with, until it is read
    searchQuery,  \* the handler's searchQuery
    qsrc,         \* the branch that assigned searchQuery
    searchCalls,  \* the queries searchProducts was called with, in order
    provs,        \* per provider: its call's state and settled value
    products,     \* the handler's products while the enhancer runs
    resp,         \* the response sent, status 0 while there is none
    given,        \* the list the stage that ran last was called with
    races,        \* per head product of the enhancer: its scrape and its race
    trend         \* the getTrending call: its limit, similarities and lists

vars == <<cfg, pc, req, aiCalls, timer, aiReply, searchQuery, qsrc, searchCalls,
          provs, products, resp, given, races, trend, settled>>

\* no getTrending call is running
NoTrend == [limit |-> 0, sim |-> <<>>, results |-> <<>>, deduped |-> <<>>,
            diverse |-> <<>>]

\* no model call has settled
NoReply == [kind |-> "none", out |-> ""]
\* the fetch of the model call was aborted by its timer
Aborted == [kind |-> "abort", out |-> ""]

NoResp ==
    [status |-> 0, error |-> Null, details |-> Null, query |-> "",
     products |-> <<>>, comparison |-> EmptyComparison]

\* res.status(code).json({ error }) and, with details, { error, details }
ErrorResp(code, error, details) ==
    [NoResp EXCEPT !.status = code, !.error = Some(error), !.details = details]

Init ==
    /\ cfg \in {[gemini |-> TRUE, serp |-> TRUE], [gemini |-> FALSE, serp |-> TRUE],
                [gemini |-> TRUE, serp |-> FALSE]}
    /\ pc = "idle"
    /\ req = EmptyReq
    /\ aiCalls = <<>>
    /\ timer = FALSE
    /\ aiReply = NoReply
    /\ searchQuery = ""
    /\ qsrc = "none"
    /\ searchCalls = <<>>
    /\ provs = [i \in Providers |-> NotCalled]
    /\ products = <<>>
    /\ resp = NoResp
    /\ given = <<>>
    /\ races = <<>>
    /\ trend = NoTrend
    /\ settled = <<>>

\* the handler sends a response and returns
Respond(r) ==
    /\ resp' = r
    /\ pc' = "done"

\* searchQuery is assigned by branch src and the handler goes on to
\* `await searchProducts(searchQuery)`, which starts the four provider calls
StartSearch(q, src) ==
    /\ searchQuery' = q
    /\ qsrc' = src
    /\ searchCalls' = Append(searchCalls, q)
    /\ provs' = [i \in Providers |-> Pending]
    /\ pc' = "prov_wait"
    /\ UNCHANGED <<products, resp>>

\* the outer catch of the handler
Catch500(message) ==
    /\ Respond(ErrorResp(500, "Something went wrong", Some(message)))
    /\ UNCHANGED <<searchQuery, qsrc, searchCalls, provs, products>>

\* the caption part of the prompt: caption && caption.trim()
CaptionOf(text) == IF Truthy(text) /\ Trim(text.v) # "" THEN Some(Trim(text.v)) ELSE Null

\* the image branch once the payload of `size` bytes is there; bufferSize is
\* imageBuffer.length, 0 without an upload.  queryGeminiFromImage throws
\* before any call when the base64 text is shorter than 100 characters.
ImageBranch(r, size, bufferSize) ==
    IF Base64Len(size) < MinBase64
    THEN /\ StartSearch(ImageFallback(r.text, bufferSize, r.imageUrl), "fb_image")
         /\ UNCHANGED <<aiCalls, timer>>
    ELSE /\ aiCalls' = Append(aiCalls, [mode |-> "image", text |-> CaptionOf(r.text),
                                        image |-> TRUE, timeout |-> TRUE])
         /\ timer' = TRUE
         /\ pc' = "ai_image_wait"
         /\ UNCHANGED <<searchQuery, qsrc, searchCalls, provs, products, resp>>

\* a request arrives and passes through searchUpload.single('image').  A
\* rejected upload is passed to next(err); the error middleware for multer
\* is registered before the route, so the error reaches the framework's
\* default handler, which answers 500.
Arrive(r) ==
    /\ pc = "idle"
    /\ req' = r
    /\ IF r.multipart /\ r.file.present /\ ~StartsWith(r.file.mimetype, "image/")
       THEN Respond(ErrorResp(500, "Invalid file type", Null))
       ELSE IF r.multipart /\ r.file.present /\ r.file.size > MaxFileSize
       THEN Respond(ErrorResp(500, "File too large", Null))
       ELSE pc' = "handler" /\ resp' = resp
    /\ UNCHANGED <<settled, trend, given, races, cfg, aiCalls, timer, aiReply, searchQuery, qsrc, searchCalls, provs,
                   products>>

\* a list of accepted types that lets TIFF through
ImageTypesWithTiff ==
    {"image/jpeg", "image/jpg", "image/png", "image/gif", "image/webp", "image/bmp",
     "image/tiff"}

ValidImageTypes ==
    {"image/jpeg", "image/jpg", "image/png", "image/gif", "image/webp", "image/bmp"}

\* the handler from its entry to its first await (or its response)
HandlerEntry ==
    /\ pc = "handler"
    /\ LET hasFile == req.multipart /\ req.file.present
           useRaw == ~req.multipart /\ req.raw
           text == req.text
           textGiven == Truthy(text) /\ Trim(text.v) # ""
       IN  IF ~cfg.gemini \/ ~cfg.serp
           THEN /\ Respond(ErrorResp(500, "Something went wrong", Null))
                /\ UNCHANGED <<aiCalls, timer, searchQuery, qsrc, searchCalls, provs,
                               products>>
           ELSE IF hasFile /\ req.file.mimetype \notin ValidImageTypes
           THEN /\ Respond(ErrorResp(400, "Invalid image format", Null))
                /\ UNCHANGED <<aiCalls, timer, searchQuery, qsrc, searchCalls, provs,
                               products>>
           ELSE IF ~Truthy(text) /\ ~Truthy(req.imageUrl) /\ ~hasFile
           THEN /\ Respond(ErrorResp(400, "Provide text, imageUrl, or image file", Null))
                /\ UNCHANGED <<aiCalls, timer, searchQuery, qsrc, searchCalls, provs,
                               products>>
           ELSE IF useRaw /\ textGiven
           THEN /\ StartSearch(Trim(text.v), "raw")
                /\ UNCHANGED <<aiCalls, timer>>
           ELSE IF textGiven
           THEN /\ aiCalls' = Append(aiCalls, [mode |-> "text", text |-> Some(Trim(text.v)),
                                               image |-> FALSE, timeout |-> FALSE])
                /\ pc' = "ai_text_wait"
                /\ UNCHANGED <<timer, searchQuery, qsrc, searchCalls, provs, products,
                               resp>>
           ELSE IF hasFile
           THEN ImageBranch(req, req.file.size, req.file.size)
           ELSE IF Truthy(req.imageUrl)
           THEN /\ pc' = "img_wait"
                /\ UNCHANGED <<aiCalls, timer, searchQuery, qsrc, searchCalls, provs,
                               products, resp>>
           ELSE /\ StartSearch("fashion clothing", "edge")
                /\ UNCHANGED <<aiCalls, timer>>
    /\ UNCHANGED <<settled, trend, given, races, cfg, req, aiReply>>

\* fetchImageAsBase64(imageUrl) fails: the throw is outside the inner try
ImageFetchFails ==
    /\ pc = "img_wait"
    /\ Catch500("Failed to fetch image: 404")
    /\ UNCHANGED <<settled, trend, given, races, cfg, req, aiCalls, timer, aiReply>>

\* fetchImageAsBase64(imageUrl) returns an image of `size` bytes
ImageFetched(size) ==
    /\ pc = "img_wait"
    /\ ImageBranch(req, size, 0)
    /\ UNCHANGED <<settled, trend, given, races, cfg, req, aiReply>>

\* the fetch of queryGeminiFromText settles with `reply`; there is no timer
AITextSettles(reply) ==
    /\ pc = "ai_text_wait"
    /\ aiReply' = reply
    /\ pc' = "ai_text_back"
    /\ UNCHANGED <<settled, trend, given, races, cfg, req, aiCalls, timer, searchQuery, qsrc, searchCalls, provs,
                   products, resp>>

\* a text branch without its catch block: a failure of the model call
\* reaches the handler's outer catch
AITextRethrows ==
    /\ pc = "ai_text_back"
    /\ aiReply' = NoReply
    /\ IF aiReply.kind = "ok" /\ TextOutAccepted(aiReply.out)
       THEN StartSearch(aiReply.out, "ai_text")
       ELSE Catch500("Gemini text error")
    /\ UNCHANGED <<settled, trend, given, races, cfg, req, aiCalls, timer>>

\* queryGeminiFromText goes on after its fetch: it returns the accepted
\* output or throws, and the handler's catch block computes the fallback
AITextReturns ==
    /\ pc = "ai_text_back"
    /\ aiReply' = NoReply
    /\ IF aiReply.kind = "ok" /\ TextOutAccepted(aiReply.out)
       THEN StartSearch(aiReply.out, "ai_text")
       ELSE StartSearch(TextFallback(req.text.v), "fb_text")
    /\ UNCHANGED <<settled, trend, given, races, cfg, req, aiCalls, timer>>

\* the fetch of queryGeminiFromImage settles with `reply` before its timer
\* fires
AIImageSettles(reply) ==
    /\ pc = "ai_image_wait"
    /\ aiReply' = reply
    /\ pc' = "ai_image_back"
    /\ UNCHANGED <<settled, trend, given, races, cfg, req, aiCalls, timer, searchQuery, qsrc, searchCalls, provs,
                   products, resp>>

\* the 10 s timer of queryGeminiFromImage fires: controller.abort() makes
\* the fetch reject
AIImageTimeout ==
    /\ pc = "ai_image_wait"
    /\ timer
    /\ timer' = FALSE
    /\ aiReply' = Aborted
    /\ pc' = "ai_image_back"
    /\ UNCHANGED <<settled, trend, given, races, cfg, req, aiCalls, searchQuery, qsrc, searchCalls, provs, products,
                   resp>>

\* queryGeminiFromImage goes on after its fetch: clearTimeout, then it
\* returns the accepted output or the handler's catch block computes the
\* fallback
AIImageReturns ==
    /\ pc = "ai_image_back"
    /\ aiReply' = NoReply
    /\ timer' = FALSE
    /\ IF aiReply.kind = "ok" /\ ImageOutAccepted(aiReply.out)
       THEN StartSearch(aiReply.out, "ai_image")
       ELSE StartSearch(ImageFallback(req.text, IF req.multipart /\ req.file.present
                                                THEN req.file.size ELSE 0,
                                      req.imageUrl), "fb_image")
    /\ UNCHANGED <<settled, trend, given, races, cfg, req, aiCalls>>

\* the call of provider i settles
ProviderSettles(i, outcome) ==
    /\ pc = "prov_wait"
    /\ provs[i].status = "pending"
    /\ provs' = [provs EXCEPT ![i] = outcome]
    /\ UNCHANGED <<settled, trend, given, races, cfg, pc, req, aiCalls, timer, aiReply, searchQuery, qsrc,
                   searchCalls, products, resp>>

AllSettled == \A i \in Providers : provs[i].status \in {"fulfilled", "rejected"}

\* Promise.allSettled resolves: searchProducts returns, the handler
\* normalizes, filters and orders, and calls enhanceProductPrices
SearchReturns ==
    /\ pc = "prov_wait"
    /\ AllSettled
    /\ given' = SearchProductsResult([i \in Providers |-> provs[i]])
    /\ products' = FilterAndOrder(SearchProductsResult([i \in Providers |-> provs[i]]),
                                  req, searchQuery)
    /\ pc' = "enhance_wait"
    /\ UNCHANGED <<settled, trend, races, cfg, req, aiCalls, timer, aiReply, searchQuery, qsrc, searchCalls,
                   provs, resp>>

\* every race of enhanceProductPrices has ended: the handler strips the
\* internal fields, builds the comparison and responds
EnhanceReturns(outcomes) ==
    /\ pc = "enhance_wait"
    /\ LET final == stripInternalFields(enhanceProductPrices(products, outcomes))
       IN  Respond([status |-> 200, error |-> Null, details |-> Null,
                    query |-> searchQuery, products |-> final,
                    comparison |-> generateComparisonData(final)])
    /\ UNCHANGED <<settled, trend, given, races, cfg, req, aiCalls, timer, aiReply, searchQuery, qsrc, searchCalls,
                   provs, products>>

Next ==
    \/ \E r \in Requests : Arrive(r)
    \/ HandlerEntry
    \/ ImageFetchFails
    \/ \E size \in DownloadSizes : ImageFetched(size)
    \/ \E reply \in AIReplies : AITextSettles(reply)
    \/ AITextReturns
    \/ \E reply \in AIImageReplies : AIImageSettles(reply)
    \/ AIImageTimeout
    \/ AIImageReturns
    \/ \E i \in Providers : \E o \in ProviderOutcomes(i) : ProviderSettles(i, o)
    \/ SearchReturns
    \/ \E live \in LivePages : EnhanceReturns(RaceOutcomes(products, live))

Spec == Init /\ [][Next]_vars

\* The handler's own steps and the timers the runtime fires are taken when
\* they can be; what the outside world does (the model's answer, the image
\* download) is not: a peer may never answer.  A provider call and a scrape
\* are bounded by the race and by the fetch they make, and do settle.
FairSpec ==
    /\ Spec
    /\ WF_vars(HandlerEntry)
    /\ WF_vars(AITextReturns)
    /\ WF_vars(AIImageTimeout)
    /\ WF_vars(AIImageReturns)
    /\ WF_vars(\E i \in Providers : \E o \in ProviderOutcomes(i) : ProviderSettles(i, o))
    /\ WF_vars(SearchReturns)
    /\ WF_vars(\E live \in LivePages : EnhanceReturns(RaceOutcomes(products, live)))

(***************************************************************************)
(* The provider fan-out on its own: the handler of a raw-text request at   *)
(* its call of searchProducts, from where the request runs to its response *)
(***************************************************************************)
FanoutRequests ==
    { [EmptyReq EXCEPT !.text = Some(" Red Shirt "), !.raw = TRUE],
      [EmptyReq EXCEPT !.text = Some("summer dress"), !.raw = TRUE,
                       !.sortBy = Some("price"), !.sortOrder = Some("asc")],
      [EmptyReq EXCEPT !.text = Some("red shirt"), !.raw = TRUE,
                       !.minPrice = Num(50000), !.maxPrice = Num(150000)] }

FanoutInit ==
    /\ cfg = [gemini |-> TRUE, serp |-> TRUE]
    /\ req \in FanoutRequests
    /\ pc = "prov_wait"
    /\ aiCalls = <<>>
    /\ timer = FALSE
    /\ aiReply = NoReply
    /\ searchQuery = Trim(req.text.v)
    /\ qsrc = "raw"
    /\ searchCalls = <<Trim(req.text.v)>>
    /\ provs = [i \in Providers |-> Pending]
    /\ products = <<>>
    /\ resp = NoResp
    /\ given = <<>>
    /\ races = <<>>
    /\ trend = NoTrend
    /\ settled = <<>>

FanoutNext ==
    \/ \E i \in Providers : \E o \in ProviderOutcomes(i) : ProviderSettles(i, o)
    \/ SearchReturns
    \/ \E live \in LivePages : EnhanceReturns(RaceOutcomes(products, live))

FanoutSpec == FanoutInit /\ [][FanoutNext]_vars

(***************************************************************************)
(* searchProducts with the order of completion of its provider calls kept  *)
(***************************************************************************)
\* the call of provider i settles, after the calls in `settled`
ProviderSettlesNext(i, outcome) ==
    /\ pc = "prov_wait"
    /\ provs[i].status = "pending"
    /\ provs' = [provs EXCEPT ![i] = outcome]
    /\ settled' = Append(settled, i)
    /\ UNCHANGED <<trend, given, races, cfg, pc, req, aiCalls, timer, aiReply,
                   searchQuery, qsrc, searchCalls, products, resp>>

SettleNext ==
    \/ \E i \in Providers : \E o \in ProviderOutcomes(i) : ProviderSettlesNext(i, o)
    \/ SearchReturns

SettleSpec == FanoutInit /\ [][SettleNext]_vars

(***************************************************************************)
(* The filter and rank-or-sort stage on its own: the handler between       *)
(* products.map(normalizeProduct) and its call of enhanceProductPrices,    *)
(* one step for applyFilters and one for the rerank or the sort            *)
(***************************************************************************)
\* the longest list of products the stage is given
MaxListLen == 3

\* the sequences over `pool` of length up to n
SeqsUpTo(pool, n) == UNION {[1..k -> pool] : k \in 0..n}

\* what searchProducts may have returned, normalized: prices with a
\* currency symbol, with grouping, with decimals, without a symbol, unknown
OrderPool ==
    { normalizeProduct(Prod(Some("Red Cotton Shirt"), Some("₹1,299"),
                            Some("http://s.ex/1"), Some("Zara"), Some("t1"))),
      normalizeProduct(Prod(Some("Blue Denim Jeans"), Some("₹799.50"),
                            Some("http://s.ex/2"), Some("Myntra"), Null)),
      normalizeProduct(Prod(Some("Black Jacket"), Null,
                            Some("http://flipkart.com/1"), Some("flipkart.com"),
                            Some("t5"))),
      normalizeProduct(Prod(Some(" red cotton shirt "), Some("999"),
                            Some("http://amazon.in/1"), Some("Amazon"), Some("t2"))),
      normalizeProduct(Prod(Some("Red Dress"), Some("₹500"),
                            Some("http://s.ex/5"), Null, Null)) }

\* the filter and sort parameters of the request body
OrderRequests ==
    { EmptyReq,
      [EmptyReq EXCEPT !.minPrice = Num(50000), !.maxPrice = Num(99900)],
      [EmptyReq EXCEPT !.minPrice = Num(80000)],
      [EmptyReq EXCEPT !.maxPrice = Num(79950), !.colors = Some("black| blue ")],
      [EmptyReq EXCEPT !.sortBy = Some("price")],
      [EmptyReq EXCEPT !.sortBy = Some("Price"), !.sortOrder = Some("DESC"),
                       !.minPrice = Num(50000)],
      [EmptyReq EXCEPT !.sortBy = Some("price"), !.sortOrder = Some("asc"),
                       !.brands = Some("amazon, zara,")],
      [EmptyReq EXCEPT !.sortBy = Some("price"), !.sortOrder = Some("desc")],
      [EmptyReq EXCEPT !.sortBy = Some("date")] }

\* the queries the rerank is given: plain words, a word with a one-letter
\* part, and a query without a letter or a digit
OrderQueries == {"red shirt", "red t-shirt", "??"}

OrderInit ==
    /\ cfg = [gemini |-> TRUE, serp |-> TRUE]
    /\ req \in OrderRequests
    /\ pc = "ord_in"
    /\ aiCalls = <<>>
    /\ timer = FALSE
    /\ aiReply = NoReply
    /\ searchQuery \in (IF Truthy(req.sortBy) THEN {"red shirt"} ELSE OrderQueries)
    /\ qsrc = "raw"
    /\ searchCalls = <<searchQuery>>
    /\ provs = [i \in Providers |-> NotCalled]
    /\ products \in SeqsUpTo(OrderPool, MaxListLen)
    /\ resp = NoResp
    /\ given = <<>>
    /\ races = <<>>
    /\ trend = NoTrend
    /\ settled = <<>>

\* products = applyFilters(products, { minPrice, maxPrice, colors, sizes, brands })
FilterStep ==
    /\ pc = "ord_in"
    /\ given' = products
    /\ products' = applyFilters(products, FiltersOf(req))
    /\ pc' = "ord_filtered"
    /\ UNCHANGED <<settled, trend, races, cfg, req, aiCalls, timer, aiReply, searchQuery, qsrc,
                   searchCalls, provs, resp>>

\* the rerank or the sort of the filtered products
OrderStep ==
    /\ pc = "ord_filtered"
    /\ given' = products
    /\ products' = rankOrSort(products, req, searchQuery)
    /\ pc' = "ord_done"
    /\ UNCHANGED <<settled, trend, races, cfg, req, aiCalls, timer, aiReply, searchQuery, qsrc,
                   searchCalls, provs, resp>>

OrderNext == FilterStep \/ OrderStep

OrderSpec == OrderInit /\ [][OrderNext]_vars

(***************************************************************************)
(* The price enhancer on its own, race by race, and POST /refresh-prices   *)
(***************************************************************************)
\* the lists the enhancer and the refresh are given: products with and
\* without price, link and scraper, with a price in the title, and a list
\* longer than the head the enhancer scrapes
EnhanceLists ==
    LET zara == normalizeProduct(Prod(Some("Red Cotton Shirt"), Some("₹1,299"),
                    Some("http://s.ex/1"), Some("Zara"), Some("t1")))
        nike == normalizeProduct(Prod(Some("Nike Air 270"), Null,
                    Some("http://amazon.in/2"), Some("Amazon"), Null))
        jeans == normalizeProduct(Prod(Some("Blue Denim Jeans"), Some("₹799.50"),
                    Some("http://s.ex/2"), Some("Myntra"), Null))
        lost == normalizeProduct(Prod(Some("Lost Link"), Null, Null,
                    Some("flipkart.com"), Some("t4")))
        jacket == normalizeProduct(Prod(Some("Black Jacket"), Null,
                    Some("http://flipkart.com/1"), Some("flipkart.com"), Some("t5")))
        dress == normalizeProduct(Prod(Some("Summer Dress 1,499.50"), Some("null"),
                    Some("http://myntra.com/1"), Some("myntra.com"), Some("t6")))
    IN  { <<>>,
          <<nike>>,
          <<zara, nike, jeans>>,
          <<lost, jacket, dress>>,
          <<zara, jeans, lost, zara, jacket, nike, dress>> }

\* what the scraper of fetchRealTimePrice can come back with for p: a price
\* or nothing (null, or an error it catches); without a scraper for the
\* product's source, nothing
ScrapeOutcomes(p) ==
    IF HasScraper(p)
    THEN {[kind |-> "price", n |-> 499], [kind |-> "none", n |-> 0]}
    ELSE {[kind |-> "none", n |-> 0]}

\* a head product without link: no scrape and no race
NoRace == [fetch |-> "skip", winner |-> "skip", outcome |-> [kind |-> "none", n |-> 0]]
\* Promise.race([fetchRealTimePrice(product), 2 s timer]) has started
Racing == [fetch |-> "running", winner |-> "none", outcome |-> [kind |-> "none", n |-> 0]]

EnhanceInit ==
    /\ cfg = [gemini |-> TRUE, serp |-> TRUE]
    /\ req = EmptyReq
    /\ pc = "list_in"
    /\ aiCalls = <<>>
    /\ timer = FALSE
    /\ aiReply = NoReply
    /\ searchQuery = ""
    /\ qsrc = "none"
    /\ searchCalls = <<>>
    /\ provs = [i \in Providers |-> NotCalled]
    /\ products \in EnhanceLists
    /\ resp = NoResp
    /\ given = <<>>
    /\ races = <<>>
    /\ trend = NoTrend
    /\ settled = <<>>

\* enhanceProductPrices(products) is called: a race starts for every product
\* of the head that has a link
EnhanceStart ==
    /\ pc = "list_in"
    /\ given' = products
    /\ races' = [i \in 1..HeadCount(products) |->
                    IF Truthy(products[i].link) THEN Racing ELSE NoRace]
    /\ pc' = "enh_race"
    /\ UNCHANGED <<settled, trend, cfg, req, aiCalls, timer, aiReply, searchQuery, qsrc, searchCalls,
                   provs, products, resp>>

\* fetchRealTimePrice of head product i resolves, with a price or without;
\* it decides the race unless the timer has, and then it is dropped
ScrapeSettles(i) ==
    /\ pc \in {"enh_race", "enh_done", "enh_again"}
    /\ i \in 1..Len(races)
    /\ races[i].fetch = "running"
    /\ \E o \in ScrapeOutcomes(given[i]) :
          races' = [races EXCEPT ![i] =
                      IF @.winner = "none"
                      THEN [fetch |-> "done", winner |-> "fetch", outcome |-> o]
                      ELSE [@ EXCEPT !.fetch = "done"]]
    /\ UNCHANGED <<settled, trend, given, cfg, pc, req, aiCalls, timer, aiReply, searchQuery, qsrc,
                   searchCalls, provs, products, resp>>

\* the 2 s timer of race i fires first: the race resolves to the product
RaceTimeout(i) ==
    /\ pc = "enh_race"
    /\ i \in 1..Len(races)
    /\ races[i].winner = "none"
    /\ races' = [races EXCEPT ![i].winner = "timer",
                              ![i].outcome = [kind |-> "timeout", n |-> 0]]
    /\ UNCHANGED <<settled, trend, given, cfg, pc, req, aiCalls, timer, aiReply, searchQuery, qsrc,
                   searchCalls, provs, products, resp>>

\* every race of the head is decided: Promise.allSettled resolves, and what
\* is left of enhanceProductPrices is two loops over the list and a return
RacesDecided == \A i \in 1..Len(races) : races[i].winner # "none"

\* Promise.allSettled over the races resolves: the updates are taken over,
\* the title fallback runs and enhanceProductPrices returns
EnhanceCompletes ==
    /\ pc = "enh_race"
    /\ RacesDecided
    /\ products' = enhanceProductPrices(products,
                                        [i \in 1..Len(races) |-> races[i].outcome])
    /\ pc' = "enh_done"
    /\ UNCHANGED <<settled, trend, given, races, cfg, req, aiCalls, timer, aiReply, searchQuery, qsrc,
                   searchCalls, provs, resp>>

\* enhanceProductPrices is called again with the list it returned, and no
\* scrape of this run finds a price in time (each ends as `kind` says)
EnhanceAgain(kind) ==
    /\ pc = "enh_done"
    /\ given' = products
    /\ products' = enhanceProductPrices(products,
                        [i \in 1..HeadCount(products) |-> [kind |-> kind, n |-> 0]])
    /\ pc' = "enh_again"
    /\ UNCHANGED <<settled, trend, races, cfg, req, aiCalls, timer, aiReply, searchQuery, qsrc,
                   searchCalls, provs, resp>>

\* the ways the scrapes of the list can end, one outcome per product
ScrapeRuns(list) ==
    {outs \in [1..Len(list) -> UNION {ScrapeOutcomes(list[i]) : i \in 1..Len(list)}] :
        \A i \in 1..Len(list) : outs[i] \in ScrapeOutcomes(list[i])}

\* POST /refresh-prices with the list: fetchRealTimePrice for every product
\* with a link, one after the other, scrape i ending as outs[i]
RefreshPrices ==
    /\ pc = "list_in"
    /\ given' = products
    /\ \E outs \in ScrapeRuns(products) :
          /\ races' = [i \in 1..Len(products) |->
                          IF Truthy(products[i].link)
                          THEN [fetch |-> "done", winner |-> "fetch", outcome |-> outs[i]]
                          ELSE NoRace]
          /\ products' = [i \in 1..Len(products) |->
                             IF Truthy(products[i].link)
                             THEN RaceResult(products[i], outs[i])
                             ELSE products[i]]
    /\ pc' = "ref_done"
    /\ UNCHANGED <<settled, trend, cfg, req, aiCalls, timer, aiReply, searchQuery, qsrc, searchCalls,
                   provs, resp>>

EnhanceNext ==
    \/ EnhanceStart
    \/ \E i \in 1..HeadLimit : ScrapeSettles(i)
    \/ \E i \in 1..HeadLimit : RaceTimeout(i)
    \/ EnhanceCompletes
    \/ \E kind \in {"none", "timeout"} : EnhanceAgain(kind)
    \/ RefreshPrices

EnhanceSpec == EnhanceInit /\ [][EnhanceNext]_vars

\* The timer of a race fires when nothing has decided the race; a retailer's
\* page may never answer, so no scrape is bound to settle.
FairEnhanceSpec ==
    /\ EnhanceSpec
    /\ WF_vars(\E i \in 1..HeadLimit : RaceTimeout(i))

(***************************************************************************)
(* getTrending from its collected results on: deduplication, selectDiverse *)
(* and the final shuffle                                                   *)
(***************************************************************************)
\* the deduplication key of getTrending: key + '|' + tkey
TrendKey(it) == BeforeQuery(it.link.v) \o "|" \o Trim(ToLower(it.title.v))

RECURSIVE TrendDedupe(_, _)
\* the deduplication loop of getTrending over `results`
TrendDedupe(results, seen) ==
    IF results = <<>> THEN <<>>
    ELSE IF TrendKey(results[1]) \in seen THEN TrendDedupe(Tail(results), seen)
    ELSE <<results[1]>>
         \o TrendDedupe(Tail(results), seen \cup {TrendKey(results[1])})

\* cosine similarities are numbers from 0 to 1; the model has them in
\* halves, so MaxSim is the similarity 1 that minSim starts from
MaxSim == 2

\* the similarity tables of n titles: cosineSim of each pair of vectors
SimTables(n) ==
    LET pairs == {q \in (1..n) \X (1..n) : q[1] < q[2]}
    IN  { [i \in 1..n |-> [j \in 1..n |->
                IF i = j THEN MaxSim
                ELSE IF i < j THEN f[<<i, j>>] ELSE f[<<j, i>>]]] :
          f \in [pairs -> 0..MaxSim] }

RECURSIVE MinSim(_, _, _)
\* the smallest similarity of item i to the selected items, from 1 down
MinSim(i, selected, sim) ==
    IF selected = <<>> THEN MaxSim
    ELSE LET rest == MinSim(i, SubSeq(selected, 1, Len(selected) - 1), sim)
             here == sim[i][selected[Len(selected)]]
         IN  IF here < rest THEN here ELSE rest

RECURSIVE LastBestIdx(_, _, _, _, _, _)
\* a scan of the candidates in which a later candidate wins a tie
LastBestIdx(candidates, selected, sim, ci, bestScore, bestIdx) ==
    IF ci > Len(candidates) THEN bestIdx
    ELSE LET minSim == MinSim(candidates[ci], selected, sim)
         IN  IF minSim >= bestScore
             THEN LastBestIdx(candidates, selected, sim, ci + 1, minSim, ci)
             ELSE LastBestIdx(candidates, selected, sim, ci + 1, bestScore, bestIdx)

RECURSIVE BestIdx(_, _, _, _, _, _)
\* the for loop over the candidates from ci on: the index of the first
\* candidate with the largest minSim, 0 when there is none
BestIdx(candidates, selected, sim, ci, bestScore, bestIdx) ==
    IF ci > Len(candidates) THEN bestIdx
    ELSE LET minSim == MinSim(candidates[ci], selected, sim)
         IN  IF minSim > bestScore
             THEN BestIdx(candidates, selected, sim, ci + 1, minSim, ci)
             ELSE BestIdx(candidates, selected, sim, ci + 1, bestScore, bestIdx)

RECURSIVE Greedy(_, _, _, _)
\* the while loop of selectDiverse over positions of items
Greedy(selected, candidates, sim, k) ==
    IF Len(selected) < k /\ candidates # <<>>
    THEN LET b == BestIdx(candidates, selected, sim, 1, -1, 0)
         IN  IF b = 0 THEN selected
             ELSE Greedy(Append(selected, candidates[b]),
                         SubSeq(candidates, 1, b - 1)
                            \o SubSeq(candidates, b + 1, Len(candidates)),
                         sim, k)
    ELSE selected

\* selectDiverse(items, titles, k), the similarities of the titles given
selectDiverse(items, sim, k) ==
    IF Len(items) <= k THEN items
    ELSE LET selected == Greedy(<<1>>, [j \in 1..(Len(items) - 1) |-> j + 1], sim, k)
         IN  [j \in 1..Len(selected) |-> items[selected[j]]]

\* the default limit of getTrending
DefaultLimit == 12

\* the limits a call is made with
TrendLimits == {1, 2, 3, DefaultLimit}

\* the results a call has collected, every item with title and link:
\* repeated items, links that differ in their query or in letter case only,
\* titles that differ in case and blanks only
TrendLists ==
    LET a  == Prod(Some("Summer Dress"), Null, Some("http://myntra.com/1"),
                   Some("myntra.com"), Some("t6"))
        a2 == Prod(Some("summer dress "), Null, Some("http://MYNTRA.com/1?y=2"),
                   Some("myntra.com"), Some("t7"))
        a3 == Prod(Some("Summer Dress"), Null, Some("http://myntra.com/1?x=9"),
                   Some("myntra.com"), Some("t8"))
        b  == Prod(Some("Denim Jeans"), Null, Some("http://ajio.com/2"),
                   Some("ajio.com"), Some("t9"))
        c  == Prod(Some("Running Sneakers"), Null, Some("http://amazon.in/3"),
                   Some("amazon.in"), Null)
        d  == Prod(Some("Silk Kurta"), Null, Some("http://flipkart.com/4"),
                   Some("flipkart.com"), Some("t10"))
    IN  { <<>>, <<a>>, <<a, a3, b>>, <<a, a2>>, <<a, b, c, d>>,
          <<b, a, c, a3, d, b>>, <<a, b, a2, c>> }

TrendInit ==
    /\ cfg = [gemini |-> TRUE, serp |-> TRUE]
    /\ req = EmptyReq
    /\ pc = "trend_collected"
    /\ aiCalls = <<>>
    /\ timer = FALSE
    /\ aiReply = NoReply
    /\ searchQuery = ""
    /\ qsrc = "none"
    /\ searchCalls = <<>>
    /\ provs = [i \in Providers |-> NotCalled]
    /\ products = <<>>
    /\ resp = NoResp
    /\ given = <<>>
    /\ races = <<>>
    /\ trend \in {[NoTrend EXCEPT !.limit = k, !.results = list] :
                    k \in TrendLimits, list \in TrendLists}
    /\ settled = <<>>

\* the deduplication of the collected results
TrendDedupes ==
    /\ pc = "trend_collected"
    /\ trend' = [trend EXCEPT !.deduped = TrendDedupe(trend.results, {})]
    /\ pc' = "trend_deduped"
    /\ UNCHANGED <<settled, given, races, cfg, req, aiCalls, timer, aiReply,
                   searchQuery, qsrc, searchCalls, provs, products, resp>>

\* diverse = selectDiverse(deduped, titles, Number(limit) || 12); the
\* similarities are computed when there are more items than the limit
TrendSelects ==
    /\ pc = "trend_deduped"
    /\ \E sim \in (IF Len(trend.deduped) <= trend.limit THEN {<<>>}
                    ELSE SimTables(Len(trend.deduped))) :
          trend' = [trend EXCEPT !.sim = sim,
                                 !.diverse = selectDiverse(trend.deduped, sim, trend.limit)]
    /\ pc' = "trend_selected"
    /\ UNCHANGED <<settled, given, races, cfg, req, aiCalls, timer, aiReply,
                   searchQuery, qsrc, searchCalls, provs, products, resp>>

\* diverse.sort(() => Math.random() - 0.5): some order of the selection
TrendShuffles ==
    /\ pc = "trend_selected"
    /\ \E order \in {f \in [1..Len(trend.diverse) -> 1..Len(trend.diverse)] :
                        \A i, j \in 1..Len(trend.diverse) : f[i] = f[j] => i = j} :
          products' = [i \in 1..Len(trend.diverse) |-> trend.diverse[order[i]]]
    /\ pc' = "trend_done"
    /\ UNCHANGED <<settled, trend, given, races, cfg, req, aiCalls, timer, aiReply,
                   searchQuery, qsrc, searchCalls, provs, resp>>

TrendNext == TrendDedupes \/ TrendSelects \/ TrendShuffles

TrendSpec == TrendInit /\ [][TrendNext]_vars

(***************************************************************************)
(* The price parser on its own: products.map(normalizeProduct) over raw    *)
(* products, whose priceNumber is parsePriceToNumber(price)                *)
(***************************************************************************)
RECURSIVE DigitRuns(_, _)
\* priceStr.match(/\d{3,}/g) from position i on, each match through
\* parseInt: the maximal runs of three or more digits, in order
DigitRuns(s, i) ==
    IF i > Len(s) THEN <<>>
    ELSE IF ~IsDigit(Ch(s, i)) THEN DigitRuns(s, i + 1)
    ELSE LET r == RunLen(s, i, FALSE)
         IN  (IF r >= 3 THEN <<DigitsToInt(SubSeq(s, i, i + r - 1))>> ELSE <<>>)
             \o DigitRuns(s, i + r)

\* the candidates of pattern 5: the numbers in the reasonable price range,
\* sorted ascending
PriceCandidates(s) ==
    StableSort(SelectSeq(DigitRuns(s, 1), LAMBDA n : n > 100 /\ n < 1000000),
               LAMBDA a, b : a - b < 0)

\* candidates[Math.floor(candidates.length / 2)], in hundredths
MedianCandidate(s) ==
    LET candidates == PriceCandidates(s)
    IN  Num(100 * candidates[(Len(candidates) \div 2) + 1])

\* the display string the enhancer writes for an amount: the rupee sign and
\* the amount through toFixed(0)
CanonicalPrice(n) == "₹" \o ToFixed0(100 * n)

\* the largest of the consecutive amounts whose display string is parsed
MaxAmount == 60

\* amounts: every small one, and larger ones with 3 to 8 digits
Amounts == (0..MaxAmount) \cup {99, 100, 101, 999, 1000, 1299, 99999, 100000,
                                999999, 1000000, 12345678}

\* price texts without a currency symbol, as a provider or a page shows them
PlainPrices ==
    { "1299 1499 1999", "SKU 12345 price 1299 ship 150", "500 750",
      "150 2500 99999 cod", "1299", "1,299", "799.50", "Free", "Rs. 1,499 only" }

\* the price of a raw product
PriceTexts ==
    {Null} \cup {Some(t) : t \in PlainPrices}
           \cup {Some(CanonicalPrice(n)) : n \in Amounts}

ParseInit ==
    /\ cfg = [gemini |-> TRUE, serp |-> TRUE]
    /\ req = [EmptyReq EXCEPT !.text = Some("red shirt"), !.raw = TRUE]
    /\ pc = "raw_in"
    /\ aiCalls = <<>>
    /\ timer = FALSE
    /\ aiReply = NoReply
    /\ searchQuery = "red shirt"
    /\ qsrc = "raw"
    /\ searchCalls = <<"red shirt">>
    /\ provs = [i \in Providers |-> NotCalled]
    /\ products \in {<<Prod(Some("Red Cotton Shirt"), price, Some("http://s.ex/1"),
                           Some("Zara"), Null)>> : price \in PriceTexts}
    /\ resp = NoResp
    /\ given = <<>>
    /\ races = <<>>
    /\ trend = NoTrend
    /\ settled = <<>>

\* products = products.map(normalizeProduct)
NormalizeStep ==
    /\ pc = "raw_in"
    /\ given' = products
    /\ products' = [i \in 1..Len(products) |-> normalizeProduct(products[i])]
    /\ pc' = "normalized"
    /\ UNCHANGED <<settled, trend, races, cfg, req, aiCalls, timer, aiReply, searchQuery, qsrc,
                   searchCalls, provs, resp>>

ParseNext == NormalizeStep

ParseSpec == ParseInit /\ [][ParseNext]_vars

(***************************************************************************)
(* The comparison builder on its own: the handler from its call of         *)
(* generateComparisonData to the response                                  *)
(***************************************************************************)
\* a product as stripInternalFields leaves it
Stripped(t, p, l, s, th) ==
    [title |-> t, price |-> p, link |-> l, source |-> s, thumbnail |-> th,
     priceUpdated |-> FALSE]

\* the products the comparison is built from: two companies with several
\* prices, equal prices at two companies, a product without source, a
\* product without price and one whose price holds no number
ComparePool ==
    { Stripped(Some("Red Cotton Shirt"), Some("₹1,299"), Some("http://s.ex/1"),
               Some("Zara"), Some("t1")),
      Stripped(Some("Red Shirt"), Some("₹999"), Some("http://s.ex/6"),
               Some("Zara"), Null),
      Stripped(Some("Blue Denim Jeans"), Some("₹799.50"), Some("http://s.ex/2"),
               Some("Myntra"), Null),
      Stripped(Some(" red cotton shirt "), Some("999"), Some("http://amazon.in/1"),
               Some("Amazon"), Some("t2")),
      Stripped(Some("Nike Air"), Null, Some("http://amazon.in/2"),
               Some("Amazon"), Null),
      Stripped(Some("Red Dress"), Some("₹500"), Some("http://s.ex/5"), Null, Null),
      Stripped(Some("Gift Card"), Some("Free"), Some("http://flipkart.com/9"),
               Some("flipkart.com"), Null) }

CompareInit ==
    /\ cfg = [gemini |-> TRUE, serp |-> TRUE]
    /\ req = [EmptyReq EXCEPT !.text = Some("red shirt"), !.raw = TRUE]
    /\ pc = "cmp_in"
    /\ aiCalls = <<>>
    /\ timer = FALSE
    /\ aiReply = NoReply
    /\ searchQuery = "red shirt"
    /\ qsrc = "raw"
    /\ searchCalls = <<"red shirt">>
    /\ provs = [i \in Providers |-> NotCalled]
    /\ products \in SeqsUpTo(ComparePool, MaxListLen)
    /\ resp = NoResp
    /\ given = <<>>
    /\ races = <<>>
    /\ trend = NoTrend
    /\ settled = <<>>

\* const comparisonData = generateComparisonData(products), and the response
CompareStep ==
    /\ pc = "cmp_in"
    /\ given' = products
    /\ resp' = [status |-> 200, error |-> Null, details |-> Null,
                query |-> searchQuery, products |-> products,
                comparison |-> generateComparisonData(products)]
    /\ pc' = "cmp_done"
    /\ UNCHANGED <<settled, trend, races, cfg, req, aiCalls, timer, aiReply, searchQuery, qsrc,
                   searchCalls, provs, products>>

CompareNext == CompareStep

CompareSpec == CompareInit /\ [][CompareNext]_vars

(***************************************************************************)
(* Properties of searchProducts (C1, C2)                                   *)
(***************************************************************************)
\* the settled results as the loop of searchProducts reads them
SettledResults == [i \in Providers |-> provs[i]]

\* the results of the providers that succeeded, in provider order
ValueOfFulfilled(i) == IF provs[i].status = "fulfilled" THEN provs[i].value ELSE <<>>
FulfilledValues ==
    ValueOfFulfilled(1) \o ValueOfFulfilled(2) \o ValueOfFulfilled(3)
    \o ValueOfFulfilled(4)

\* the key of a product: its link up to the query string, lowercased, joined
\* with its lowercased, trimmed title
KeyOf(it) == ToLower(BeforeQuery(it.link.v)) \o "|" \o Trim(ToLower(it.title.v))
HasTitleAndLink(it) == Truthy(it.title) /\ Truthy(it.link)
\* the key of each product of a list, "" for a product without title or link
KeysOf(list) ==
    [k \in 1..Len(list) |-> IF HasTitleAndLink(list[k]) THEN KeyOf(list[k]) ELSE ""]

\* searchProducts is about to return
Returning == pc = "prov_wait" /\ AllSettled

\* C1: whatever the providers returned, the list searchProducts returns has
\* no two products with the same key (link without query string, lowercased,
\* joined with the lowercased trimmed title), has no product without a title
\* or a link, and holds, for every key of the merged list, the first product
\* of the merged list with that key.
C1_DedupInvariant ==
    Returning =>
        LET merged == FulfilledValues
            deduped == SearchProductsResult(SettledResults)
            mkeys == KeysOf(merged)
            dkeys == KeysOf(deduped)
            First(key) == CHOOSE f \in 1..Len(merged) :
                             /\ mkeys[f] = key
                             /\ \A g \in 1..(f - 1) : mkeys[g] # key
        IN  /\ \A i \in 1..Len(deduped) : HasTitleAndLink(deduped[i])
            /\ \A i, j \in 1..Len(deduped) : i # j => dkeys[i] # dkeys[j]
            /\ \A i \in 1..Len(deduped) : \E k \in 1..Len(merged) : deduped[i] = merged[k]
            /\ \A k \in 1..Len(merged) :
                  HasTitleAndLink(merged[k]) =>
                      \E i \in 1..Len(deduped) :
                          /\ dkeys[i] = mkeys[k]
                          /\ deduped[i] = merged[First(mkeys[k])]

\* C1 witness: searchProducts returns from a merged list that holds two
\* products with the same key and a product without a link or a title
C1_Witness ==
    /\ Returning
    /\ LET merged == FulfilledValues
           mkeys == KeysOf(merged)
       IN  /\ \E j, k \in 1..Len(merged) : j < k /\ mkeys[j] # "" /\ mkeys[j] = mkeys[k]
           /\ \E k \in 1..Len(merged) : ~HasTitleAndLink(merged[k])
           /\ Len(SearchProductsResult(SettledResults)) >= 2

AllRejected == \A i \in Providers : provs[i].status = "rejected"

\* C2: whichever providers fail, searchProducts does not throw (the request
\* that called it gets no error response) and returns exactly the
\* deduplicated merge of what the providers that succeeded returned; when
\* all four fail, the response is a success with products = [] and
\* comparison.priceStats = null.
C2_ProviderFailuresTolerated ==
    /\ Returning => SearchProductsResult(SettledResults) = Dedupe(FulfilledValues, {})
    /\ searchCalls # <<>> => resp.status \in {0, 200}
    /\ (pc = "done" /\ searchCalls # <<>> /\ AllRejected) =>
          /\ resp.status = 200
          /\ resp.products = <<>>
          /\ resp.comparison.priceStats.null

\* C2 witness: the request has responded after all four providers failed
C2_Witness ==
    /\ pc = "done"
    /\ searchCalls # <<>>
    /\ AllRejected
    /\ resp.status = 200
    /\ resp.products = <<>>

(***************************************************************************)
(* Properties of the /search handler (C3 .. C10)                           *)
(***************************************************************************)
HasUpload(r) == r.multipart /\ r.file.present
\* the image types an upload may have
AcceptedImageTypes ==
    {"image/jpeg", "image/jpg", "image/png", "image/gif", "image/webp", "image/bmp"}
\* the request carries none of text, imageUrl and image
NoSearchSignal(r) == ~Truthy(r.text) /\ ~Truthy(r.imageUrl) /\ ~HasUpload(r)
BadUploadType(r) == HasUpload(r) /\ r.file.mimetype \notin AcceptedImageTypes
OversizedUpload(r) == HasUpload(r) /\ r.file.size > MaxFileSize
InputError(r) == NoSearchSignal(r) \/ BadUploadType(r) \/ OversizedUpload(r)
KeysConfigured == cfg.gemini /\ cfg.serp
TextGiven(r) == Truthy(r.text) /\ Trim(r.text.v) # ""

\* C3: a request that passes input validation, with the API keys configured,
\* ends with a success response whatever external call fails.
C3_ValidatedRequestSucceeds ==
    (pc = "done" /\ KeysConfigured /\ ~InputError(req)) => resp.status = 200

\* C4: the model call is bounded by a timeout on the text path and on the
\* image path: a request waiting for the model always goes on to respond,
\* even if the model never answers.
C4_AICallBounded == (pc \in {"ai_text_wait", "ai_image_wait"}) ~> (pc = "done")

\* the model call that settled has failed: a network error, a non-OK status,
\* an abort, an empty output or an output the validation rejects
TextCallFailed ==
    \/ aiReply.kind \in {"neterr", "http", "abort"}
    \/ aiReply.out = ""
    \/ ~TextOutAccepted(aiReply.out)
ImageCallFailed ==
    \/ aiReply.kind \in {"neterr", "http", "abort"}
    \/ aiReply.out = ""
    \/ ~ImageOutAccepted(aiReply.out)
UploadSize(r) == IF HasUpload(r) THEN r.file.size ELSE 0

\* C5: when the model call has failed, on the text path or on the image
\* path, the handler's next step sends no error: it calls searchProducts
\* with the fallback query computed from the request, and that is the only
\* call of searchProducts the request ever makes; the request then ends
\* with a success response.
C5_AIFailureFallsBack ==
    /\ [](Len(searchCalls) <= 1)
    /\ [](qsrc \in {"fb_text", "fb_image"} => resp.status \in {0, 200})
    /\ [][(pc = "ai_text_back" /\ TextCallFailed) =>
            /\ pc' = "prov_wait"
            /\ resp' = NoResp
            /\ searchCalls' = <<TextFallback(req.text.v)>>]_vars
    /\ [][(pc = "ai_image_back" /\ ImageCallFailed) =>
            /\ pc' = "prov_wait"
            /\ resp' = NoResp
            /\ searchCalls' = <<ImageFallback(req.text, UploadSize(req), req.imageUrl)>>]_vars

\* C5 witness: a request whose text call failed has responded with success
\* after one call of searchProducts with the text fallback
C5_Witness ==
    /\ pc = "done"
    /\ qsrc = "fb_text"
    /\ resp.status = 200
    /\ searchCalls = <<TextFallback(req.text.v)>>

\* C6: every query handed to searchProducts is a non-empty string, on every
\* path of the handler.
C6_QueryNonEmpty == \A k \in 1..Len(searchCalls) : searchCalls[k] # ""

\* C6 witness: text that is empty after trimming, and no image, reaches
\* searchProducts with the edge-case query
C6_Witness ==
    /\ Truthy(req.text)
    /\ Trim(req.text.v) = ""
    /\ qsrc = "edge"
    /\ searchCalls = <<"fashion clothing">>

\* C7 as stated: the query of a request is 3 to 200 characters long on every
\* path.
C7_LengthAlways3To200 ==
    \A k \in 1..Len(searchCalls) :
        Len(searchCalls[k]) >= 3 /\ Len(searchCalls[k]) <= 200

\* the longest suffix a fallback appends to the user's text
LongestSuffix == " outerwear fashion casual formal"
Max2(a, b) == IF a >= b THEN a ELSE b
InRange(q, lo, hi) == Len(q) >= lo /\ Len(q) <= hi

\* C7 amended: the query is 3 to 200 characters long when it is the model's
\* validated output (5 to 200 on the image path) or a query the handler
\* holds ready (the edge-case query, a fallback without the user's text);
\* a raw query is the trimmed text as given, of any length from 1; a
\* fallback built from the user's text is at least 3 long and at most the
\* longer of 200 and the text's length plus the suffix.
C7_LengthByPath ==
    searchCalls # <<>> =>
        LET q == searchCalls[1]
        IN  /\ q = searchQuery
            /\ qsrc = "ai_text" => InRange(q, 3, 200)
            /\ qsrc = "ai_image" => InRange(q, 5, 200)
            /\ qsrc = "edge" => InRange(q, 3, 200)
            /\ (qsrc = "fb_image" /\ ~TextGiven(req)) => InRange(q, 3, 200)
            /\ qsrc = "raw" => q = Trim(req.text.v) /\ Len(q) >= 1
            /\ (qsrc \in {"fb_text", "fb_image"} /\ TextGiven(req)) =>
                  InRange(q, 3, Max2(200, Len(Trim(req.text.v)) + Len(LongestSuffix)))

\* C7 witness: a raw query longer than 200 characters reaches searchProducts
C7_Witness ==
    /\ qsrc = "raw"
    /\ searchCalls = <<searchQuery>>
    /\ Len(searchQuery) > 200

\* C8: a request with an input error (no text, imageUrl or image; an upload
\* whose type is no accepted image type; an upload over 20MB) gets an error
\* response and never reaches the pipeline: no model call and no provider
\* call is made for it.
C8_InputErrorsRejected ==
    (pc # "idle" /\ InputError(req)) =>
        /\ pc \in {"handler", "done"}
        /\ aiCalls = <<>>
        /\ searchCalls = <<>>
        /\ \A i \in Providers : provs[i] = NotCalled
        /\ pc = "done" => resp.status >= 400

\* C8 witness: with the keys configured, an upload of a type that is no
\* accepted image type has been answered 400
C8_Witness ==
    /\ pc = "done"
    /\ KeysConfigured
    /\ BadUploadType(req)
    /\ StartsWith(req.file.mimetype, "image/")
    /\ resp.status = 400
    /\ aiCalls = <<>>

\* C9: the response of a request that failed with an unexpected error
\* carries no detail of the failure.
C9_NoInternalDetail == resp.status = 500 => resp.details = Null

\* C10: a request with non-blank text and an image (file or imageUrl) calls
\* the model in image mode, with the image and with the text as caption.
C10_CaptionFusion ==
    (aiCalls # <<>> /\ TextGiven(req) /\ (Truthy(req.imageUrl) \/ HasUpload(req))) =>
        /\ aiCalls[1].mode = "image"
        /\ aiCalls[1].image
        /\ aiCalls[1].text = Some(Trim(req.text.v))

(***************************************************************************)
(* Properties of the query derivation (C11, C12)                           *)
(***************************************************************************)
\* the refusal phrases the specification names
NamedRefusals == {"cannot", "unable to", "sorry", "i don't see", "no clothing"}

\* an output the validation must reject: empty, shorter than lo, longer than
\* 200 characters, or with one of the named refusal phrases in it
MustBeRejected(out, lo) ==
    \/ out = ""
    \/ Len(out) < lo
    \/ Len(out) > 200
    \/ IncludesAny(ToLower(out), NamedRefusals)

\* C11: on the text and on the image entry point alike, a model output that
\* is empty, shorter than the minimum length, longer than 200 characters or
\* that contains one of the phrases "cannot", "unable to", "sorry",
\* "i don't see", "no clothing" is rejected: it never becomes the search
\* query; the query taken from the model is the one handed to searchProducts.
C11_OutputValidated ==
    /\ qsrc = "ai_text" =>
          ~MustBeRejected(searchQuery, 3) /\ searchCalls = <<searchQuery>>
    /\ qsrc = "ai_image" =>
          ~MustBeRejected(searchQuery, 5) /\ searchCalls = <<searchQuery>>

\* the season and occasion keywords in the order the fallback tries them,
\* each with its ready-made expansion
SeasonKeywords ==
    << <<"summer", SummerQuery>>, <<"winter", WinterQuery>>,
       <<"spring", SpringQuery>>, <<"autumn", AutumnQuery>>,
       <<"fall", AutumnQuery>>, <<"casual", CasualQuery>>,
       <<"party", PartyQuery>>, <<"formal", FormalQuery>>,
       <<"beach", BeachQuery>>, <<"office", OfficeQuery>>,
       <<"weekend", WeekendQuery>> >>

GarmentNouns ==
    {"shirt", "dress", "pant", "jean", "shoe", "bag", "jacket", "coat",
     "skirt", "top", "blouse", "sneaker", "boot", "handbag", "purse",
     "jewelry", "accessory"}

HasSeasonKeyword(t) == \E k \in 1..Len(SeasonKeywords) : Includes(t, SeasonKeywords[k][1])
\* the expansion of the first keyword of the order that t contains
ExpansionFor(t) ==
    SeasonKeywords[CHOOSE k \in 1..Len(SeasonKeywords) :
                      /\ Includes(t, SeasonKeywords[k][1])
                      /\ \A j \in 1..(k - 1) : ~Includes(t, SeasonKeywords[j][1])][2]

\* the text of the request as the fallback reads it
FallbackText == ToLower(Trim(req.text.v))

\* C12: when the model call failed for a text without a garment noun and
\* with a season or occasion keyword, the fallback query is the ready-made
\* expansion of the first keyword (in the order summer, winter, spring,
\* autumn/fall, casual, party, formal, beach, office, weekend) that the
\* text contains, and the text itself is not part of the query; for
\* "summer outfits" it is the summer expansion.
C12_SeasonalFallback ==
    (qsrc = "fb_text" /\ ~IncludesAny(FallbackText, GarmentNouns)
                      /\ HasSeasonKeyword(FallbackText)) =>
        /\ searchQuery = ExpansionFor(FallbackText)
        /\ ~Includes(searchQuery, FallbackText)
        /\ FallbackText = "summer outfits" => searchQuery = SummerQuery

(***************************************************************************)
(* Properties of the filter and rank-or-sort stage (C13 .. C15)            *)
(***************************************************************************)
Known(p) == ~p.priceNumber.null
\* the known price of p is within the bounds that f supplies, bounds included
InBounds(p, f) ==
    /\ f.minPrice.null \/ f.minPrice.n <= p.priceNumber.n
    /\ f.maxPrice.null \/ p.priceNumber.n <= f.maxPrice.n
\* the filters f without their price bounds
NoPriceBounds(f) == [f EXCEPT !.minPrice = NoNum, !.maxPrice = NoNum]

\* C13: applyFilters keeps a product with a known priceNumber only if
\* minPrice <= priceNumber <= maxPrice (bounds included, a bound that is not
\* supplied does not constrain), and it keeps or drops a product with a
\* null priceNumber exactly as it does without any price bound: the result
\* is the result without price bounds less the known prices out of bounds.
C13_PriceFilter ==
    pc = "ord_filtered" =>
        LET f == FiltersOf(req)
            unbounded == applyFilters(given, NoPriceBounds(f))
        IN  /\ \A i \in 1..Len(products) :
                  Known(products[i]) => InBounds(products[i], f)
            /\ products = SelectSeq(unbounded, LAMBDA p : ~Known(p) \/ InBounds(p, f))

\* C13 witness: with both bounds supplied, the filter has dropped a product
\* and has kept a product priced exactly at the lower bound and a product
\* without a known price
C13_Witness ==
    /\ pc = "ord_filtered"
    /\ ~req.minPrice.null /\ ~req.maxPrice.null
    /\ Len(products) < Len(given)
    /\ \E i \in 1..Len(products) :
          Known(products[i]) /\ products[i].priceNumber.n = req.minPrice.n
    /\ \E i \in 1..Len(products) : ~Known(products[i])

\* b holds the elements of a, each as often as a does
PermOf(a, b) ==
    /\ Len(a) = Len(b)
    /\ \A i \in 1..Len(a) :
          Cardinality({j \in 1..Len(a) : a[j] = a[i]})
          = Cardinality({j \in 1..Len(b) : b[j] = a[i]})
\* no product with a known price comes after one without
NullsLast(list) ==
    \A i, j \in 1..Len(list) : (i < j /\ ~Known(list[i])) => ~Known(list[j])
KnownAscending(list) ==
    \A i, j \in 1..Len(list) :
        (i < j /\ Known(list[i]) /\ Known(list[j])) =>
            list[i].priceNumber.n <= list[j].priceNumber.n
KnownDescending(list) ==
    \A i, j \in 1..Len(list) :
        (i < j /\ Known(list[i]) /\ Known(list[j])) =>
            list[i].priceNumber.n >= list[j].priceNumber.n
SortByPrice(r) == Truthy(r.sortBy) /\ ToLower(r.sortBy.v) = "price"
\* the requested order in lower case, asc when none is given
OrderOf(r) == IF Truthy(r.sortOrder) THEN ToLower(r.sortOrder.v) ELSE "asc"

\* C14: with sortBy = price, applySort returns a permutation of its input in
\* which every product with a null priceNumber comes after every product
\* with a known one, for asc and for desc alike; the known prices are
\* non-decreasing for asc and non-increasing for desc.
C14_PriceSort ==
    (pc = "ord_done" /\ SortByPrice(req)) =>
        /\ PermOf(given, products)
        /\ NullsLast(products)
        /\ OrderOf(req) = "asc" => KnownAscending(products)
        /\ OrderOf(req) = "desc" => KnownDescending(products)

\* C14 witness: a descending price sort has reordered a list with a product
\* without a known price and two different known prices
C14_Witness ==
    /\ pc = "ord_done"
    /\ SortByPrice(req)
    /\ OrderOf(req) = "desc"
    /\ products # given
    /\ ~Known(given[1])
    /\ \E i, j \in 1..Len(products) :
          /\ Known(products[i]) /\ Known(products[j])
          /\ products[i].priceNumber.n > products[j].priceNumber.n

\* C15: after filtering exactly one ordering is applied: without sortBy the
\* products are in the order of the heuristic rerank; with sortBy they are
\* in the order of the explicit sort (by price, nulls last, in the requested
\* direction) and not in an order the rerank made.
C15_OneOrdering ==
    pc = "ord_done" =>
        IF ~Truthy(req.sortBy)
        THEN products = rerankByQueryHeuristics(given, searchQuery)
        ELSE /\ PermOf(given, products)
             /\ NullsLast(products)
             /\ IF OrderOf(req) = "desc" THEN KnownDescending(products)
                ELSE KnownAscending(products)

(***************************************************************************)
(* Properties of the price enhancer and of the refresh (C16 .. C19)        *)
(***************************************************************************)
\* p has a price: a string that is not empty and not 'null' / 'undefined'
HadPrice(p) == Truthy(p.price) /\ p.price.v \notin {"null", "undefined"}
\* the races the timer decided
TimedOut == {i \in 1..Len(races) : races[i].winner = "timer"}

Canonical(price) ==
    /\ Len(price) >= 2
    /\ Ch(price, 1) = "₹"
    /\ \A k \in 2..Len(price) : IsDigit(Ch(price, k))

\* C17: after enhanceProductPrices every product with a non-null price has
\* it in the canonical display format, the rupee sign followed by an
\* integer amount without grouping separators and without decimals,
\* whichever of provider, live scrape and title the price came from.
C17_CanonicalPrices ==
    pc = "enh_done" =>
        \A i \in 1..Len(products) :
            ~products[i].price.null => Canonical(products[i].price.v)

\* C18: enhanceProductPrices is idempotent: run again on the list it
\* returned, with no scrape finding a price, it returns the same list, and
\* every product that had a non-empty price has the same price string.
C18_Idempotent ==
    pc = "enh_again" =>
        /\ products = given
        /\ \A i \in 1..Len(given) :
              Truthy(given[i].price) => products[i].price = given[i].price

\* C18 witness: the second run is over, on a list in which the first run
\* had filled in a scraped price and a price from a title and had left a
\* product without price
C18_Witness ==
    /\ pc = "enh_again"
    /\ \E i \in 1..Len(races) :
          races[i].outcome.kind = "price" /\ given[i].priceUpdated
    /\ \E i \in 1..Len(given) : given[i].price = Some("₹270")
    /\ \E i \in 1..Len(given) : given[i].price.null

\* the Price Enhancer on the whole list: a scrape for every product with a
\* link, scrape i ending as outs[i], then the title fallback for the
\* products still without a price
EnhanceWhole(list, outs) ==
    [i \in 1..Len(list) |->
        LET scraped == IF Truthy(list[i].link) THEN RaceResult(list[i], outs[i])
                       ELSE list[i]
        IN  IF HadPrice(scraped) THEN scraped ELSE TitlePrice(scraped)]

\* C19: the refresh returns what the Price Enhancer without the head limit
\* returns for the submitted list: every product with a link is scraped,
\* a product still without a price gets the price found in its title, and
\* the list keeps its length and order.
C19_RefreshIsEnhance ==
    pc = "ref_done" =>
        /\ Len(products) = Len(given)
        /\ products = EnhanceWhole(given, [i \in 1..Len(races) |-> races[i].outcome])

(***************************************************************************)
(* Properties of the comparison builder (C20)                              *)
(***************************************************************************)
\* C20: for an empty product list generateComparisonData returns the empty
\* shape with all six fields: companies [], companyGroups {}, priceStats
\* null, bestDeals [], totalProducts 0, priceRange null.
C20_EmptyComparisonShape ==
    (pc = "done" /\ resp.status = 200 /\ resp.products = <<>>) =>
        /\ resp.comparison.keys = {"companies", "companyGroups", "priceStats",
                                   "bestDeals", "totalProducts", "priceRange"}
        /\ resp.comparison.companies = <<>>
        /\ resp.comparison.companyGroups = <<>>
        /\ resp.comparison.priceStats.null
        /\ resp.comparison.bestDeals = <<>>
        /\ resp.comparison.totalProducts = 0
        /\ resp.comparison.priceRange.null

(***************************************************************************)
(* Properties of the comparison builder on any list (C21, C22)             *)
(***************************************************************************)
\* the positions of the products whose price parses to a number
PricedAt(list) == {i \in 1..Len(list) : ~parsePriceToNumber(list[i].price).null}
\* the parsed price of product i
PriceAt(list, i) == parsePriceToNumber(list[i].price).n

\* C21: priceStats of generateComparisonData is null exactly when no product
\* of the list has a parseable price; when it is not null, min and max are
\* the smallest and the largest parsed price, count is the number of priced
\* products, and priceRange.difference = max - min >= 0.
C21_PriceStats ==
    pc = "cmp_done" =>
        LET c == resp.comparison
            priced == PricedAt(given)
        IN  /\ c.priceStats.null <=> priced = {}
            /\ ~c.priceStats.null =>
                  /\ \E i \in priced : c.priceStats.min = PriceAt(given, i)
                  /\ \A i \in priced : c.priceStats.min <= PriceAt(given, i)
                  /\ \E i \in priced : c.priceStats.max = PriceAt(given, i)
                  /\ \A i \in priced : c.priceStats.max >= PriceAt(given, i)
                  /\ c.priceStats.count = Cardinality(priced)
                  /\ ~c.priceRange.null
                  /\ c.priceRange.difference = c.priceStats.max - c.priceStats.min
                  /\ c.priceRange.difference >= 0

\* C21 witness: a comparison over a list with a product without a parseable
\* price and two products of different price, the cheaper one not first
C21_Witness ==
    /\ pc = "cmp_done"
    /\ Len(given) = MaxListLen
    /\ PricedAt(given) = {1, 3}
    /\ PriceAt(given, 3) < PriceAt(given, 1)
    /\ resp.comparison.priceStats.count = 2
    /\ resp.comparison.priceRange.difference > 0

\* the companies of a list
CompaniesIn(list) == {SourceOf(list[i]) : i \in 1..Len(list)}
\* the positions of the priced products of a company
PricedOf(list, company) == {i \in PricedAt(list) : SourceOf(list[i]) = company}

\* C22: bestDeals has exactly one entry for each company with a priced
\* product and none for a company without one; the entry's product is a
\* cheapest priced product of the company, its price that product's parsed
\* price, and the entries are in ascending price order.
C22_BestDeals ==
    pc = "cmp_done" =>
        LET deals == resp.comparison.bestDeals
        IN  /\ \A company \in CompaniesIn(given) :
                  Cardinality({k \in 1..Len(deals) : deals[k].company = company})
                    = IF PricedOf(given, company) = {} THEN 0 ELSE 1
            /\ \A k \in 1..Len(deals) :
                  /\ deals[k].company \in CompaniesIn(given)
                  /\ \E i \in PricedOf(given, deals[k].company) :
                        /\ deals[k].product = given[i]
                        /\ deals[k].price = PriceAt(given, i)
                  /\ \A i \in PricedOf(given, deals[k].company) :
                        deals[k].price <= PriceAt(given, i)
            /\ \A k \in 1..(Len(deals) - 1) : deals[k].price <= deals[k + 1].price

\* C22 witness: a company whose cheapest product is not its first, a second
\* company with a cheaper deal that comes later in the list
C22_Witness ==
    /\ pc = "cmp_done"
    /\ Len(resp.comparison.bestDeals) = 2
    /\ resp.comparison.bestDeals[2].company = SourceOf(given[1])
    /\ resp.comparison.bestDeals[2].product = given[2]
    /\ resp.comparison.bestDeals[1].product = given[3]

(***************************************************************************)
(* Properties of parsePriceToNumber (C23, C24)                             *)
(***************************************************************************)
\* the text has no currency symbol
NoSymbol(t) == \A k \in 1..Len(t) : Ch(t, k) \notin CurrencyChars

\* C23: for a price text without currency symbol that holds several numbers
\* of three or more digits, parsePriceToNumber returns the median of the
\* candidates in the plausible range.
C23_MedianOfCandidates ==
    pc = "normalized" =>
        \A i \in 1..Len(given) :
            (/\ ~given[i].price.null
             /\ NoSymbol(given[i].price.v)
             /\ Len(DigitRuns(Trim(given[i].price.v), 1)) >= 2
             /\ Len(PriceCandidates(Trim(given[i].price.v))) >= 1)
            => products[i].priceNumber = MedianCandidate(Trim(given[i].price.v))

\* C24: parsePriceToNumber of the canonical display string of a
\* non-negative integer amount n returns n.
C24_CanonicalRoundTrip ==
    pc = "normalized" =>
        \A n \in Amounts :
            given[1].price = Some(CanonicalPrice(n))
            => products[1].priceNumber = Num(100 * n)

\* C24 witness: the display string of an amount with more than three digits
\* has been parsed
C24_Witness ==
    /\ pc = "normalized"
    /\ given[1].price = Some(CanonicalPrice(1299))
    /\ given[1].price.v = "₹1299"
    /\ products[1].priceNumber = Num(129900)

(***************************************************************************)
(* Properties of getTrending (C25, C26)                                    *)
(***************************************************************************)
\* the items of a list
ItemsOf(list) == {list[i] : i \in 1..Len(list)}

\* C25: the items the trending deduplication keeps are the items the
\* deduplication of searchProducts keeps on the same list; two items with
\* the same title whose links differ in letter case only become one.
C25_TrendingDedupAsSearch ==
    pc \in {"trend_deduped", "trend_selected", "trend_done"} =>
        ItemsOf(trend.deduped) = ItemsOf(Dedupe(trend.results, {}))

\* the position in the deduplicated list of the j-th selected item
PickedAt(j) ==
    CHOOSE i \in 1..Len(trend.deduped) : trend.deduped[i] = trend.diverse[j]

\* the smallest similarity of item c to the items selected before the j-th
SmallestSim(c, j) ==
    CHOOSE m \in 0..MaxSim :
        /\ \E h \in 1..(j - 1) : trend.sim[c][PickedAt(h)] = m
        /\ \A h \in 1..(j - 1) : trend.sim[c][PickedAt(h)] >= m

\* C26: selectDiverse returns min(k, n) distinct items of its input; with
\* n > k the first item is selected first and every following pick is the
\* remaining candidate whose smallest similarity to the items selected so
\* far is largest, the earliest such candidate on a tie.
C26_GreedyDiverse ==
    pc = "trend_selected" =>
        LET n == Len(trend.deduped)
            k == trend.limit
            out == trend.diverse
        IN  /\ Len(out) = IF k < n THEN k ELSE n
            /\ ItemsOf(out) \subseteq ItemsOf(trend.deduped)
            /\ \A i, j \in 1..Len(out) : out[i] = out[j] => i = j
            /\ n > k =>
                  /\ out[1] = trend.deduped[1]
                  /\ \A j \in 2..k :
                        \A c \in (1..n) \ {PickedAt(h) : h \in 1..(j - 1)} :
                            \/ SmallestSim(c, j) < SmallestSim(PickedAt(j), j)
                            \/ /\ SmallestSim(c, j) = SmallestSim(PickedAt(j), j)
                               /\ PickedAt(j) <= c

\* C26 witness: three of four items are selected; the third pick is neither
\* the next item of the list nor the only maximum: a later candidate ties
C26_Witness ==
    /\ pc = "trend_selected"
    /\ Len(trend.deduped) = 4 /\ trend.limit = 3
    /\ PickedAt(2) = 4
    /\ PickedAt(3) = 2
    /\ SmallestSim(3, 3) = SmallestSim(2, 3)
    /\ trend.sim[2][1] # trend.sim[2][4]

(***************************************************************************)
(* Properties of the provider fan-out under any order of completion (C27)  *)
(***************************************************************************)
\* the providers whose result holds the product `it`
ProvidersOf(it) ==
    {i \in Providers : \E k \in 1..Len(ValueOfFulfilled(i)) : ValueOfFulfilled(i)[k] = it}

\* C27: searchProducts returns only after all four provider calls have
\* settled, and its list is the deduplicated merge in the fixed provider
\* order whatever the order of completion: of two duplicates the one from
\* the earlier provider is kept.
C27_CompletionOrderIrrelevant ==
    pc = "enhance_wait" =>
        /\ Len(settled) = NumProviders
        /\ \A i \in Providers : provs[i].status \in {"fulfilled", "rejected"}
        /\ given = Dedupe(FulfilledValues, {})
        /\ \A i, j \in Providers : \A a \in 1..Len(ValueOfFulfilled(i)) :
              \A b \in 1..Len(ValueOfFulfilled(j)) :
                (/\ i < j
                 /\ HasTitleAndLink(ValueOfFulfilled(i)[a])
                 /\ HasTitleAndLink(ValueOfFulfilled(j)[b])
                 /\ KeyOf(ValueOfFulfilled(i)[a]) = KeyOf(ValueOfFulfilled(j)[b]))
                => \E g \in 1..Len(given) :
                      /\ KeyOf(given[g]) = KeyOf(ValueOfFulfilled(i)[a])
                      /\ \E h \in ProvidersOf(given[g]) : h <= i

\* C27 witness: the Amazon call settled first and the Google Shopping call
\* last, each with the same shirt; the list holds Google Shopping's
C27_Witness ==
    /\ pc = "enhance_wait"
    /\ settled[1] = 2 /\ settled[NumProviders] = 1
    /\ provs[1].status = "fulfilled" /\ provs[2].status = "fulfilled"
    /\ KeyOf(Catalogue[1][1]) = KeyOf(Catalogue[2][1])
    /\ Catalogue[1][1] # Catalogue[2][1]
    /\ \E g \in 1..Len(given) : given[g] = Catalogue[1][1]
    /\ \A g \in 1..Len(given) : given[g] # Catalogue[2][1]

(***************************************************************************)
(* Properties of the /search response after the enhancer (C28, C29)        *)
(***************************************************************************)
\* the request has been answered with its products
Answered == pc = "done" /\ resp.status = 200

\* the price product i of the response is returned with, as a number
ReturnedPrice(i) == parsePriceToNumber(resp.products[i].price)

\* C28: in the response to a request with sortBy = price and sortOrder =
\* asc every product returned with a price precedes every product returned
\* without one, and the returned prices are non-decreasing.
C28_ResponseInPriceOrder ==
    (Answered /\ req.sortBy = Some("price") /\ req.sortOrder = Some("asc")) =>
        \A i, j \in 1..Len(resp.products) :
            (i < j /\ ~ReturnedPrice(j).null) =>
                /\ ~ReturnedPrice(i).null
                /\ ReturnedPrice(i).n <= ReturnedPrice(j).n

\* C29: in the response to a request with minPrice and/or maxPrice every
\* returned product whose returned price parses to a number has it within
\* the requested range.
C29_ResponseInPriceRange ==
    (Answered /\ (~req.minPrice.null \/ ~req.maxPrice.null)) =>
        \A i \in 1..Len(resp.products) :
            ~ReturnedPrice(i).null =>
                /\ ~req.minPrice.null => req.minPrice.n <= ReturnedPrice(i).n
                /\ ~req.maxPrice.null => ReturnedPrice(i).n <= req.maxPrice.n

(***************************************************************************)
(* Properties of rerankByQueryHeuristics (C30)                             *)
(***************************************************************************)
\* the vocabulary bonus of a lowercased title: half a point per fashion
\* term and three tenths per colour name in it, in tenths
TitleBonus10(t) ==
    5 * Cardinality({w \in RankFashionTerms : Includes(t, w)})
    + 3 * Cardinality({w \in RankColors : Includes(t, w)})

RECURSIVE TokenPoints10(_, _, _, _)
\* the points of the query tokens of at least `shortest` characters: 5 for
\* a whole word of the title, else 2 for a part of it, 1 more for a part of
\* the source name
TokenPoints10(p, tokens, k, shortest) ==
    IF k > Len(tokens) THEN 0
    ELSE (IF Len(tokens[k]) < shortest THEN 0
          ELSE (IF WordMatch(titleLower(p), tokens[k]) THEN 50
                ELSE IF Includes(titleLower(p), tokens[k]) THEN 20 ELSE 0)
               + (IF Includes(sourceLower(p), tokens[k]) THEN 10 ELSE 0))
         + TokenPoints10(p, tokens, k + 1, shortest)

\* the score as C30 states it: every token counts, a non-null price counts
StatedScore10(p, tokens) ==
    TokenPoints10(p, tokens, 1, 1) + TitleBonus10(titleLower(p))
    + (IF ~p.price.null THEN 10 ELSE 0)
    + (IF Truthy(p.thumbnail) THEN 5 ELSE 0)

\* the score with tokens of one character left out and the price bonus for
\* a non-empty price other than the text 'null'
AmendedScore10(p, tokens) ==
    TokenPoints10(p, tokens, 1, 2) + TitleBonus10(titleLower(p))
    + (IF ~p.price.null /\ p.price.v \notin {"", "null"} THEN 10 ELSE 0)
    + (IF Truthy(p.thumbnail) THEN 5 ELSE 0)

\* `out` is `in` reordered by non-increasing score, products of equal score
\* in their input order
RankedBy(out, in, Score(_)) ==
    /\ Len(out) = Len(in)
    /\ \E f \in [1..Len(out) -> 1..Len(in)] :
          /\ \A i, j \in 1..Len(out) : f[i] = f[j] => i = j
          /\ \A i \in 1..Len(out) : out[i] = in[f[i]]
          /\ \A i, j \in 1..Len(out) :
                i < j => \/ Score(in[f[i]]) > Score(in[f[j]])
                         \/ Score(in[f[i]]) = Score(in[f[j]]) /\ f[i] < f[j]

\* the rerank has run: the request has no sortBy
Reranked == pc = "ord_done" /\ ~Truthy(req.sortBy)

\* C30 as stated: the rerank returns its input ordered by the stated score,
\* whatever the query.
C30_RankedByStatedScore ==
    Reranked =>
        RankedBy(products, given,
                 LAMBDA p : StatedScore10(p, Tokens(ToLower(searchQuery))))

\* C30 amended: when the query has a token (a run of letters and digits),
\* the rerank returns a permutation of its input in non-increasing score,
\* products of equal score in input order, the score being as stated but
\* with tokens of a single character adding nothing and the price point
\* given for a non-empty price other than 'null'; when the query has no
\* token the input is returned as it is.
C30_RankedByScore ==
    Reranked =>
        IF Tokens(ToLower(searchQuery)) = <<>> THEN products = given
        ELSE RankedBy(products, given,
                      LAMBDA p : AmendedScore10(p, Tokens(ToLower(searchQuery))))

\* C30 witness: the rerank of a query with a one-letter token, which is
\* part of the first product's title, has moved that product behind two
\* products of equal score, which have kept their order
C30_Witness ==
    /\ Reranked
    /\ searchQuery = "red t-shirt"
    /\ Len(given) = MaxListLen
    /\ products[1] = given[2] /\ products[2] = given[3] /\ products[3] = given[1]
    /\ given[2] # given[3]
    /\ AmendedScore10(given[2], Tokens(searchQuery))
         = AmendedScore10(given[3], Tokens(searchQuery))
    /\ StatedScore10(given[1], Tokens(searchQuery))
         > AmendedScore10(given[1], Tokens(searchQuery))

====
